---- MODULE Spec2Model ----
(***************************************************************************)
(* Cross-review consensus and iterative repair loop.                       *)
(*                                                                         *)
(* Two controllers are modelled side by side:                              *)
(*   mode = "iterative" : IterativeCodeImprover.run                        *)
(*                        (src/iterative_code_improvement.py)              *)
(*   mode = "quick"     : main (src/quick_cross_review_and_fix.py)         *)
(* and the two consensus matchers they use (keyword match in               *)
(* generate_consensus_report, locality match in find_consensus_issues).    *)
(*                                                                         *)
(* Nine specifications share the variables:                                *)
(*   Spec       a session of either controller                             *)
(*   MatchSpec  the two matchers on pairs of issue lists                   *)
(*   ParseSpec  the four review functions on outputs given as texts        *)
(*   FaultSpec  aggregation, matching and repair on payloads of any type   *)
(*   LlmSpec    get_preferred_llm_class (utils/llm_utils.py)               *)
(*   SwitchSpec the task type decision exercised by test_model_switching.py*)
(*   AuditSpec  the file writes of two IterativeCodeImprover sessions      *)
(*   CrossSpec  main of cross_review.py                                    *)
(*   AggregateSpec  _aggregate_reviews (code_review_workflow_gemini.py)    *)
(*                                                                         *)
(* Scores are fixed-point numbers with unit 0.5: the value 16 stands for   *)
(* 8.0, 18 for 9.0, 9 for 4.5.  Reviewers report whole points (even        *)
(* values), so the mean of one or two scores is exact in this unit; the    *)
(* average_score of AggregateSpec is in hundredths of a point.             *)
(*                                                                         *)
(* Python strings are TLA+ strings in the state; the operations that look  *)
(* inside a string (str(), lower(), the substring test `in`) work on the   *)
(* character sequence Chars(s) of the string.                              *)
(***************************************************************************)
EXTENDS Integers, Sequences, FiniteSets, TLC

VARIABLES
    mode,              \* which controller runs; or the name of another specification
    target_score,      \* session parameter target_score
    max_iterations,    \* session parameter max_iterations
    tools,             \* result of the availability check (shutil.which)
    pc,                \* position of the controller
    iteration,         \* loop variable `iteration` (0 before the loop)
    gemini_result,     \* local gemini_result of the current iteration
    codex_result,      \* local codex_result of the current iteration
    consensus,         \* iterative: the dict returned by generate_consensus_report
    avg_score,         \* quick: local avg_score
    consensus_issues,  \* quick: local consensus_issues
    review_history,    \* iterative: self.review_history
    fix_index,         \* position in the repair loop over the consensus issues
    calls,             \* external provider calls issued so far, in order
    existing_files,    \* names of the files that exist under the code directory
    proc_result,       \* what subprocess.run did in the last review call of this iteration
    fix_log,           \* what each pass of the repair loop of this iteration read and did
    audit_files,       \* the files in the output directory (iterative_reviews, code_reviews)
    in_flight,         \* repair processes subprocess.run has started and not yet reaped
    config_files,      \* LlmSpec: the contents of the two YAML files, None for no file
    llm_class,         \* LlmSpec: the class get_preferred_llm_class returned
    agent,             \* SwitchSpec: the code agent handed to the task type decision
    task_type,         \* SwitchSpec: the task type returned
    sessions,          \* AuditSpec: the IterativeCodeImprover objects that run side by side
    loop_running,      \* CrossSpec: whether the caller runs inside an asyncio event loop
    api_outcome,       \* CrossSpec: what the Gemini API review does when it is run
    reviews,           \* AggregateSpec: the list handed to _aggregate_reviews
    summary            \* CrossSpec, AggregateSpec: what the summary step was given or returned

vars == <<mode, target_score, max_iterations, tools, pc, iteration, gemini_result,
          codex_result, consensus, avg_score, consensus_issues, review_history,
          fix_index, calls, existing_files, proc_result, fix_log, audit_files,
          in_flight, config_files, llm_class, agent, task_type, sessions,
          loop_running, api_outcome, reviews, summary>>

\* the variables of the LLM selection and of the model switch, which a review
\* session leaves alone
selection_vars == <<config_files, llm_class, agent, task_type>>

\* the variables of the concurrent sessions, of cross_review.py and of the
\* Gemini review workflow
workflow_vars == <<sessions, loop_running, api_outcome, reviews, summary>>

-----------------------------------------------------------------------------
(* Bounds of the model *)

\* largest max_iterations a session is started with
MaxIterations == 2

\* longest issue list given to the matchers in MatchSpec
MaxIssues == 2

-----------------------------------------------------------------------------
(* Strings *)

Chars(s) ==
    CASE s = "device" -> <<"d", "e", "v", "i", "c", "e">>
      [] s = "gpu" -> <<"g", "p", "u">>
      [] s = "cuda" -> <<"c", "u", "d", "a">>
      [] s = "hard-coded" -> <<"h", "a", "r", "d", "-", "c", "o", "d", "e", "d">>
      [] s = "hardcoded" -> <<"h", "a", "r", "d", "c", "o", "d", "e", "d">>
      [] s = "eval" -> <<"e", "v", "a", "l">>
      [] s = "train" -> <<"t", "r", "a", "i", "n">>
      [] s = "mode" -> <<"m", "o", "d", "e">>
      [] s = "dropout" -> <<"d", "r", "o", "p", "o", "u", "t">>
      [] s = "error handling" -> <<"e", "r", "r", "o", "r", " ", "h", "a", "n", "d", "l", "i", "n", "g">>
      [] s = "exception" -> <<"e", "x", "c", "e", "p", "t", "i", "o", "n">>
      [] s = "validation" -> <<"v", "a", "l", "i", "d", "a", "t", "i", "o", "n">>
      [] s = "x.py" -> <<"x", ".", "p", "y">>
      [] s = "model.py" -> <<"m", "o", "d", "e", "l", ".", "p", "y">>
      [] s = "hard-coded device string" -> <<"h", "a", "r", "d", "-", "c", "o", "d", "e", "d", " ", "d", "e", "v", "i", "c", "e", " ", "s", "t", "r", "i", "n", "g">>
      [] s = "GPU device not configurable" -> <<"G", "P", "U", " ", "d", "e", "v", "i", "c", "e", " ", "n", "o", "t", " ", "c", "o", "n", "f", "i", "g", "u", "r", "a", "b", "l", "e">>
      [] s = "unused import" -> <<"u", "n", "u", "s", "e", "d", " ", "i", "m", "p", "o", "r", "t">>
      [] s = "missing docstring" -> <<"m", "i", "s", "s", "i", "n", "g", " ", "d", "o", "c", "s", "t", "r", "i", "n", "g">>
      [] s = "HIGH" -> <<"H", "I", "G", "H">>
      [] s = "LOW" -> <<"L", "O", "W">>
      [] s = "{'file': '" -> <<"{", "'", "f", "i", "l", "e", "'", ":", " ", "'">>
      [] s = "', 'line': " -> <<"'", ",", " ", "'", "l", "i", "n", "e", "'", ":", " ">>
      [] s = ", 'issue': '" -> <<",", " ", "'", "i", "s", "s", "u", "e", "'", ":", " ", "'">>
      [] s = "', 'severity': '" -> <<"'", ",", " ", "'", "s", "e", "v", "e", "r", "i", "t", "y", "'", ":", " ", "'">>
      [] s = "'}" -> <<"'", "}">>
      [] s = "{'severity': '" -> <<"{", "'", "s", "e", "v", "e", "r", "i", "t", "y", "'", ":", " ", "'">>
      [] s = "', 'description': '" -> <<"'", ",", " ", "'", "d", "e", "s", "c", "r", "i", "p", "t", "i", "o", "n", "'", ":", " ", "'">>
      [] s = "upgrade to Plus" -> <<"u", "p", "g", "r", "a", "d", "e", " ", "t", "o", " ", "P", "l", "u", "s">>
      [] s = "file update:" -> <<"f", "i", "l", "e", " ", "u", "p", "d", "a", "t", "e", ":">>
      [] s = "diff" -> <<"d", "i", "f", "f">>
      [] s = "applied" -> <<"a", "p", "p", "l", "i", "e", "d">>
      [] s = "fixed" -> <<"f", "i", "x", "e", "d">>
      [] s = "file update: x.py" -> <<"f", "i", "l", "e", " ", "u", "p", "d", "a", "t", "e", ":", " ", "x", ".", "p", "y">>
      [] s = "Fix applied" -> <<"F", "i", "x", " ", "a", "p", "p", "l", "i", "e", "d">>
      [] s = "could not be fixed" -> <<"c", "o", "u", "l", "d", " ", "n", "o", "t", " ", "b", "e", " ", "f", "i", "x", "e", "d">>
      [] s = "no change made" -> <<"n", "o", " ", "c", "h", "a", "n", "g", "e", " ", "m", "a", "d", "e">>
      [] s = "Please upgrade to Plus" -> <<"P", "l", "e", "a", "s", "e", " ", "u", "p", "g", "r", "a", "d", "e", " ", "t", "o", " ", "P", "l", "u", "s">>
      [] s = "ollama" -> <<"o", "l", "l", "a", "m", "a">>
      [] s = "anthropic" -> <<"a", "n", "t", "h", "r", "o", "p", "i", "c">>
      [] s = "openai" -> <<"o", "p", "e", "n", "a", "i">>
      [] s = "Anthropic" -> <<"A", "n", "t", "h", "r", "o", "p", "i", "c">>
      [] s = "OPENAI" -> <<"O", "P", "E", "N", "A", "I">>
      [] s = "google" -> <<"g", "o", "o", "g", "l", "e">>
      [] s = "" -> <<>>
      [] s = "sk-ant-1" -> <<"s", "k", "-", "a", "n", "t", "-", "1">>
      [] s = "  " -> <<" ", " ">>

\* str.lower() on one character
lower_char(c) ==
    CASE c = "A" -> "a"
      [] c = "B" -> "b"
      [] c = "C" -> "c"
      [] c = "D" -> "d"
      [] c = "E" -> "e"
      [] c = "F" -> "f"
      [] c = "G" -> "g"
      [] c = "H" -> "h"
      [] c = "I" -> "i"
      [] c = "J" -> "j"
      [] c = "K" -> "k"
      [] c = "L" -> "l"
      [] c = "M" -> "m"
      [] c = "N" -> "n"
      [] c = "O" -> "o"
      [] c = "P" -> "p"
      [] c = "Q" -> "q"
      [] c = "R" -> "r"
      [] c = "S" -> "s"
      [] c = "T" -> "t"
      [] c = "U" -> "u"
      [] c = "V" -> "v"
      [] c = "W" -> "w"
      [] c = "X" -> "x"
      [] c = "Y" -> "y"
      [] c = "Z" -> "z"
      [] OTHER -> c

\* str.lower()
lower(s) == [i \in 1..Len(s) |-> lower_char(s[i])]

\* the Python test `k in s` on strings
contains(k, s) ==
    \E i \in 0..(Len(s) - Len(k)) : \A j \in 1..Len(k) : s[i + j] = k[j]

digit_char(d) ==
    CASE d = 0 -> "0" [] d = 1 -> "1" [] d = 2 -> "2" [] d = 3 -> "3" [] d = 4 -> "4"
      [] d = 5 -> "5" [] d = 6 -> "6" [] d = 7 -> "7" [] d = 8 -> "8" [] d = 9 -> "9"

RECURSIVE int_str(_)
\* str(n) of a non-negative integer
int_str(n) == IF n < 10 THEN <<digit_char(n)>>
              ELSE int_str(n \div 10) \o <<digit_char(n % 10)>>

\* dict.get(key, default)
get(d, key, default) == IF key \in DOMAIN d THEN d[key] ELSE default

\* str(issue) of an issue dict.  A decoded issue carries file, line, issue and
\* severity (the structure the review prompt asks for); an issue produced by
\* parse_text_review carries severity and description only.
str_issue(i) ==
    IF "file" \in DOMAIN i
    THEN Chars("{'file': '") \o Chars(i.file) \o Chars("', 'line': ") \o int_str(i.line)
         \o Chars(", 'issue': '") \o Chars(i.issue) \o Chars("', 'severity': '")
         \o Chars(i.severity) \o Chars("'}")
    ELSE Chars("{'severity': '") \o Chars(i.severity) \o Chars("', 'description': '")
         \o Chars(i.description) \o Chars("'}")

abs(n) == IF n < 0 THEN -n ELSE n

RECURSIVE sum(_)
sum(s) == IF s = <<>> THEN 0 ELSE Head(s) + sum(Tail(s))

RECURSIVE flatten(_)
flatten(ss) == IF ss = <<>> THEN <<>> ELSE Head(ss) \o flatten(Tail(ss))

-----------------------------------------------------------------------------
(* Locality match: find_consensus_issues (quick_cross_review_and_fix.py) *)

\* the line distance within which two issues of one file are the same issue
LineWindow == 5

\* same_issue with the window's boundary left out
same_issue_strict(g_issue, c_issue) ==
    /\ get(g_issue, "file", "") = get(c_issue, "file", "")
    /\ abs(get(g_issue, "line", 0) - get(c_issue, "line", 0)) < LineWindow

\* `g_file == c_file and abs(g_line - c_line) <= 5`
same_issue(g_issue, c_issue) ==
    /\ get(g_issue, "file", "") = get(c_issue, "file", "")
    /\ abs(get(g_issue, "line", 0) - get(c_issue, "line", 0)) <= LineWindow

\* the inner loop over codex_issues: the index of the issue at which the loop
\* breaks, 0 when it runs to its end without a match
first_match(g_issue, codex_issues) ==
    LET M == {j \in 1..Len(codex_issues) : same_issue(g_issue, codex_issues[j])}
    IN  IF M = {} THEN 0 ELSE CHOOSE j \in M : \A k \in M : j <= k

\* the consensus entry appended for the pair (g_issue, c_issue)
locality_entry(g_issue, c_issue) ==
    [file         |-> get(g_issue, "file", ""),
     line         |-> get(g_issue, "line", 0),
     severity     |-> get(g_issue, "severity", ""),
     gemini_issue |-> g_issue,
     codex_issue  |-> c_issue]

find_consensus_issues(gemini_data, codex_data) ==
    LET gemini_issues == get(gemini_data, "top_issues", <<>>)
        codex_issues  == get(codex_data, "top_issues", <<>>)
    IN  flatten([i \in 1..Len(gemini_issues) |->
            LET j == first_match(gemini_issues[i], codex_issues)
            IN  IF j = 0 THEN <<>>
                ELSE <<locality_entry(gemini_issues[i], codex_issues[j])>>])

-----------------------------------------------------------------------------
(* Keyword match and score aggregation: generate_consensus_report
   (iterative_code_improvement.py) *)

common_keywords ==
    <<"device", "gpu", "cuda", "hard-coded", "hardcoded", "eval", "train", "mode",
      "dropout", "error handling", "exception", "validation">>

\* the loop over common_keywords for one pair: the index of the keyword at
\* which the loop breaks, 0 when no keyword is in both strings
first_keyword(g_desc, c_desc) ==
    LET K == {k \in 1..Len(common_keywords) :
                 /\ contains(Chars(common_keywords[k]), g_desc)
                 /\ contains(Chars(common_keywords[k]), c_desc)}
    IN  IF K = {} THEN 0 ELSE CHOOSE k \in K : \A m \in K : k <= m

\* g_desc = str(g_issue).lower()
issue_desc(issue) == lower(str_issue(issue))

\* keyword_consensus without the break: an entry for every keyword a pair
\* shares
keyword_consensus_no_break(gemini_issues, codex_issues) ==
    LET g_desc == [i \in 1..Len(gemini_issues) |-> issue_desc(gemini_issues[i])]
        c_desc == [j \in 1..Len(codex_issues) |-> issue_desc(codex_issues[j])]
    IN  flatten([i \in 1..Len(gemini_issues) |->
            flatten([j \in 1..Len(codex_issues) |->
                flatten([k \in 1..Len(common_keywords) |->
                    IF /\ contains(Chars(common_keywords[k]), g_desc[i])
                       /\ contains(Chars(common_keywords[k]), c_desc[j])
                    THEN <<[keyword        |-> common_keywords[k],
                            gemini_finding |-> gemini_issues[i],
                            codex_finding  |-> codex_issues[j],
                            priority       |-> "HIGH"]>>
                    ELSE <<>>])])])

\* the loops over gemini_issues and codex_issues: for each pair, in order,
\* the entry of the first keyword both strings hold
keyword_consensus(gemini_issues, codex_issues) ==
    LET g_desc == [i \in 1..Len(gemini_issues) |-> issue_desc(gemini_issues[i])]
        c_desc == [j \in 1..Len(codex_issues) |-> issue_desc(codex_issues[j])]
    IN  flatten([i \in 1..Len(gemini_issues) |->
            flatten([j \in 1..Len(codex_issues) |->
                LET k == first_keyword(g_desc[i], c_desc[j])
                IN  IF k = 0 THEN <<>>
                    ELSE <<[keyword        |-> common_keywords[k],
                            gemini_finding |-> gemini_issues[i],
                            codex_finding  |-> codex_issues[j],
                            priority       |-> "HIGH"]>>])])

\* succeeded that counts a decoded review only
succeeded_decoded_only(result) == result.status = "success"

\* `status in ["success", "partial"]`
succeeded(result) == result.status \in {"success", "partial"}

\* the list `scores` of generate_consensus_report
report_scores(g_result, c_result) ==
    (IF succeeded(g_result) THEN <<get(g_result.data, "overall_score", 0)>> ELSE <<>>)
    \o (IF succeeded(c_result) THEN <<get(c_result.data, "overall_score", 0)>> ELSE <<>>)

\* mean taken over both providers, whether they succeeded or not
mean_over_providers(scores) == sum(scores) \div 2

\* sum(scores) / len(scores)
mean(scores) == sum(scores) \div Len(scores)

\* the dict returned (and written to iteration_<i>_consensus.json); the
\* timestamp is left out
generate_consensus_report(g_result, c_result, iter) ==
    LET scores == report_scores(g_result, c_result)
    IN  [iteration        |-> iter,
         gemini_status    |-> g_result.status,
         codex_status     |-> c_result.status,
         scores           |-> [t \in {r.tool : r \in {r \in {g_result, c_result} : succeeded(r)}}
                                 |-> IF t = "gemini"
                                     THEN get(g_result.data, "overall_score", 0)
                                     ELSE get(c_result.data, "overall_score", 0)],
         consensus_issues |-> IF succeeded(g_result) /\ succeeded(c_result)
                              THEN keyword_consensus(
                                       get(g_result.data, "critical_issues", <<>>),
                                       get(c_result.data, "critical_issues", <<>>))
                              ELSE <<>>,
         average_score    |-> IF scores # <<>> THEN mean(scores) ELSE 0]

-----------------------------------------------------------------------------
(* Issues and payloads the reviewers are taken to report *)

Issue(f, l, d, s) == [file |-> f, line |-> l, issue |-> d, severity |-> s]

P1 == Issue("x.py", 10, "hard-coded device string", "HIGH")
P2 == Issue("x.py", 15, "GPU device not configurable", "HIGH")
P3 == Issue("x.py", 16, "unused import", "LOW")
P4 == Issue("model.py", 10, "missing docstring", "LOW")
P5 == Issue("model.py", 40, "unused import", "LOW")

MatchPool == {P1, P2, P3, P4, P5}

IssueLists(n) == UNION {[1..k -> MatchPool] : k \in 0..n}

\* a variable of the program that has no value yet
None == <<>>
Some(v) == <<v>>

-----------------------------------------------------------------------------
(* What a provider process can return *)

\* overall scores the reviewers report: 7.0 and 9.0 (their mean is 8.0)
Scores == {14, 18}

\* target scores a session is started with: 0.0 and 8.0 (the default)
Targets == {0, 16}

\* a decoded review object; the issue list is under critical_issues in
\* iterative_code_improvement.py and under top_issues in
\* quick_cross_review_and_fix.py
Payload(m, score, issues) ==
    IF m = "iterative"
    THEN [overall_score |-> score, critical_issues |-> issues]
    ELSE [overall_score |-> score, top_issues |-> issues]

GeminiPayloads(m) == {Payload(m, s, l) : s \in Scores, l \in {<<>>, <<P1>>, <<P1, P3>>}}
CodexPayloads(m)  == {Payload(m, s, l) : s \in Scores, l \in {<<P2>>, <<P4>>}}

\* what parse_text_review returns for an output that does not decode: the
\* default score 5.0 without issues, or a score and one severity line
TextData ==
    {[overall_score |-> 10, critical_issues |-> <<>>,
      summary |-> "Parsed from text output"],
     [overall_score |-> 18,
      critical_issues |-> <<[severity |-> "HIGH", description |-> "hard-coded device string"]>>,
      summary |-> "Parsed from text output"]}

\* the result of subprocess.run: it raises (exc), or returns an exit status
\* and an output that holds the subscription text or not (plus) and decodes
\* as JSON (to data) or not (then data is what the text heuristics find)
ProcOutputs(payloads) ==
    {[exc |-> e] : e \in {"Timeout", "Error"}}
    \cup {[exc |-> "none", returncode |-> rc, plus |-> pl, decodes |-> TRUE, data |-> d] :
             rc \in {0, 1}, pl \in BOOLEAN, d \in payloads}
    \cup {[exc |-> "none", returncode |-> rc, plus |-> pl, decodes |-> FALSE, data |-> d] :
             rc \in {0, 1}, pl \in BOOLEAN, d \in TextData}

Review(tool, iter) == [op |-> "review", tool |-> tool, iteration |-> iter, file |-> "."]
Repair(iter, file) == [op |-> "repair", tool |-> "codex", iteration |-> iter, file |-> file]

\* the files a reviewer names; model.py is there, x.py is there or not
Files == {"x.py", "model.py"}
Directories == {{"model.py"}, {"x.py", "model.py"}}

\* what `codex exec --sandbox workspace-write` prints (stdout + stderr)
RepairTexts ==
    {"file update: x.py", "Fix applied", "could not be fixed", "no change made",
     "Please upgrade to Plus"}

\* the result of subprocess.run in a repair: it raises, or returns an output
RepairOutputs ==
    {[exc |-> e] : e \in {"Timeout", "Error"}}
    \cup {[exc |-> "none", output |-> t] : t \in RepairTexts}

\* result.stdout + result.stderr of a repair that returned; nothing is read
\* when subprocess.run raised
printed(out) == IF out.exc = "none" THEN out.output ELSE ""

\* `k in output.lower()`
in_lower(k, output) == contains(Chars(k), lower(Chars(output)))

-----------------------------------------------------------------------------
(* The output of a review call as text.

   A text is a sequence of tokens.  The extraction code looks for three
   things in the output: the fence marks, the braces, and (through
   json.loads) the JSON syntax between them; parse_text_review looks for
   score mentions and severity lines.  A token is one of these, or a stretch
   of text that holds none of them:
     fence-json, fence   the mark that opens a fenced json block (three
                         backquotes and the word json) and the mark that
                         closes it (three backquotes)
     "{" "}" "[" "]"     braces and brackets
     member              "key": value, with a number or string value
     key                 "key": in front of an array or object
     word                narrative text
     score               narrative text "score: <val>/10" (val in half points)
     severity            a line "<severity>: <description>", up to its end
     severity-word       a line that has other text in front of the letters
                         of a severity keyword ("Please follow the steps"
                         has low in follow), then a colon or white space,
                         then <description> up to its end
     plus                the text "upgrade to Plus"
   The commas of JSON and white space are not tokens. *)

FenceJson == [t |-> "fence-json"]
Fence     == [t |-> "fence"]
LB == [t |-> "{"]
RB == [t |-> "}"]
LS == [t |-> "["]
RS == [t |-> "]"]
Word == [t |-> "word"]
PlusText == [t |-> "upgrade to Plus"]
Member(k, v) == [t |-> "member", key |-> k, val |-> v]
Key(k) == [t |-> "key", key |-> k]
ScoreMention(v) == [t |-> "score", val |-> v]
SeverityLine(sev, desc) == [t |-> "severity", severity |-> sev, description |-> desc]
SeverityWord(sev, desc) == [t |-> "severity-word", severity |-> sev, description |-> desc]

\* "upgrade to Plus" in output
has_plus(output) == \E i \in 1..Len(output) : output[i] = PlusText

\* whether the opening fence mark is in output
has_fence(output) == \E i \in 1..Len(output) : output[i] = FenceJson

\* output.find(c) and output.rfind(c) for a one-character token c, as a
\* position 1..Len(output), or 0 where Python gives -1
find(output, c) ==
    IF \E i \in 1..Len(output) : output[i] = c
    THEN CHOOSE i \in 1..Len(output) :
             output[i] = c /\ \A j \in 1..(i - 1) : output[j] # c
    ELSE 0

rfind(output, c) ==
    IF \E i \in 1..Len(output) : output[i] = c
    THEN CHOOSE i \in 1..Len(output) :
             output[i] = c /\ \A j \in (i + 1)..Len(output) : output[j] # c
    ELSE 0

\* output[json_start:json_end] of the fenced branch: from behind the first
\* opening mark to the next three backquotes (those of an opening mark count
\* as well).  Without a second fence find gives -1 and the slice ends one character before the end of
\* the output: a closing brace or bracket is cut off, a longer token is cut
\* short and is no JSON any more.
fenced(output) ==
    LET start == find(output, FenceJson)
        ends  == {i \in (start + 1)..Len(output) : output[i] \in {Fence, FenceJson}}
    IN  IF ends # {}
        THEN SubSeq(output, start + 1, (CHOOSE i \in ends : \A j \in ends : i <= j) - 1)
        ELSE IF start = Len(output) THEN <<>>
        ELSE IF output[Len(output)] \in {LB, RB, LS, RS}
             THEN SubSeq(output, start + 1, Len(output) - 1)
             ELSE SubSeq(output, start + 1, Len(output) - 1) \o <<Word>>

\* a Python dict from its items in order: a later item replaces an earlier
\* one of the same key
dict(items) ==
    [k \in {items[i][1] : i \in 1..Len(items)} |->
        items[CHOOSE i \in 1..Len(items) :
                  /\ items[i][1] = k
                  /\ \A j \in (i + 1)..Len(items) : items[j][1] # k][2]]

JsonError == [ok |-> FALSE]

RECURSIVE parse_value(_, _), parse_object(_, _, _), parse_array(_, _, _)

\* json.loads on the tokens from position i: an object or an array
parse_value(toks, i) ==
    IF i > Len(toks) THEN JsonError
    ELSE IF toks[i] = LB THEN parse_object(toks, i + 1, <<>>)
    ELSE IF toks[i] = LS THEN parse_array(toks, i + 1, <<>>)
    ELSE JsonError

\* the members of an object up to its closing brace
parse_object(toks, i, items) ==
    IF i > Len(toks) THEN JsonError
    ELSE IF toks[i] = RB
         THEN [ok |-> TRUE, kind |-> "dict", val |-> dict(items), next |-> i + 1]
    ELSE IF toks[i].t = "member"
         THEN parse_object(toks, i + 1, Append(items, <<toks[i].key, toks[i].val>>))
    ELSE IF toks[i].t = "key"
         THEN LET v == parse_value(toks, i + 1)
              IN  IF v.ok
                  THEN parse_object(toks, v.next, Append(items, <<toks[i].key, v.val>>))
                  ELSE JsonError
    ELSE JsonError

\* the elements of an array up to its closing bracket
parse_array(toks, i, elems) ==
    IF i > Len(toks) THEN JsonError
    ELSE IF toks[i] = RS
         THEN [ok |-> TRUE, kind |-> "list", val |-> elems, next |-> i + 1]
    ELSE LET v == parse_value(toks, i)
         IN  IF v.ok THEN parse_array(toks, v.next, Append(elems, v.val)) ELSE JsonError

\* json.loads(json_str): the value, or JSONDecodeError when the text is no
\* JSON value or goes on behind one
json_loads(json_str) ==
    LET v == parse_value(json_str, 1)
    IN  IF v.ok /\ v.next = Len(json_str) + 1 THEN v ELSE JsonError

\* str.upper() on the severity words a review prints
upper(sev) ==
    CASE sev \in {"HIGH", "High", "high"} -> "HIGH"
      [] sev \in {"LOW", "Low", "low"} -> "LOW"
      [] OTHER -> sev

\* str.strip() on the descriptions a review prints
strip(desc) ==
    CASE desc = "unused import " -> "unused import"
      [] OTHER -> desc

\* parse_text_review: the mean of the score mentions (5.0 without one) and
\* the first five matches of severity_pattern; re.findall looks for the
\* keyword anywhere in a line, whatever stands in front of it
parse_text_review(text) ==
    LET mentions == SelectSeq(text, LAMBDA tok : tok.t = "score")
        scores   == [k \in 1..Len(mentions) |-> mentions[k].val]
        matches  == SelectSeq(text, LAMBDA tok : tok.t \in {"severity", "severity-word"})
        issues   == [k \in 1..Len(matches) |->
                        [severity    |-> upper(matches[k].severity),
                         description |-> strip(matches[k].description)]]
    IN  [overall_score   |-> IF scores # <<>> THEN mean(scores) ELSE 10,
         critical_issues |-> SubSeq(issues, 1, IF Len(issues) < 5 THEN Len(issues) ELSE 5),
         summary         |-> "Parsed from text output"]

\* json_str of run_gemini_review (iterative_code_improvement.py)
gemini_json_str(output) ==
    IF has_fence(output) THEN fenced(output)
    ELSE IF find(output, LB) # 0
         THEN SubSeq(output, find(output, LB), rfind(output, RB))
         ELSE output

\* json_str of run_codex_review (iterative_code_improvement.py): from the
\* last opening brace
codex_json_str(output) ==
    IF has_fence(output) THEN fenced(output)
    ELSE IF find(output, LB) # 0
         THEN SubSeq(output, rfind(output, LB), rfind(output, RB))
         ELSE output

\* json_str of run_gemini_review (quick_cross_review_and_fix.py): without an
\* opening brace find gives -1, and the slice output[-1:json_end] is the
\* last character if that is the last closing brace, and empty otherwise
quick_gemini_json_str(output) ==
    IF has_fence(output) THEN fenced(output)
    ELSE IF find(output, LB) # 0
         THEN SubSeq(output, find(output, LB), rfind(output, RB))
         ELSE IF output # <<>> /\ output[Len(output)] = RB THEN <<RB>> ELSE <<>>

\* json_str of run_codex_review (quick_cross_review_and_fix.py), or None
\* where it raises ValueError("No JSON found in output")
quick_codex_json_str(output) ==
    IF has_fence(output) THEN Some(fenced(output))
    ELSE IF rfind(output, LB) # 0 /\ rfind(output, RB) > rfind(output, LB)
         THEN Some(SubSeq(output, rfind(output, LB), rfind(output, RB)))
         ELSE None

\* what a review function makes of a subprocess.run result that returned
\* with the text `output`: the exit status, the subscription test, whether
\* json_str decodes to a dict, and the decoded value or else the result of
\* parse_text_review.  json_str is None where the function raised ValueError;
\* decoding tells whether the function gets as far as json.loads.  A decoded
\* value that is no dict has no .get: the print behind json.loads raises
\* AttributeError, which ends in the handler for Exception.
digest(proc, output, json_str, decoding) ==
    LET v == IF json_str = None THEN JsonError ELSE json_loads(json_str[1])
    IN  IF decoding /\ v.ok /\ v.kind # "dict"
        THEN [exc |-> "Error"]
        ELSE [exc |-> "none", returncode |-> proc.returncode,
              plus |-> has_plus(output), decodes |-> v.ok,
              data |-> IF v.ok THEN v.val ELSE parse_text_review(output)]

\* run_gemini_review (iterative_code_improvement.py) reads result.stdout,
\* once the exit status is 0
iter_gemini_out(proc) ==
    IF proc.exc # "none" THEN [exc |-> proc.exc]
    ELSE digest(proc, proc.stdout, Some(gemini_json_str(proc.stdout)),
                proc.returncode = 0)

\* run_codex_review (iterative_code_improvement.py) reads result.stdout +
\* result.stderr, unless it holds the subscription text
iter_codex_out(proc) ==
    IF proc.exc # "none" THEN [exc |-> proc.exc]
    ELSE LET output == proc.stdout \o proc.stderr
         IN  digest(proc, output, Some(codex_json_str(output)), ~has_plus(output))

\* run_gemini_review (quick_cross_review_and_fix.py)
quick_gemini_out(proc) ==
    IF proc.exc # "none" THEN [exc |-> proc.exc]
    ELSE digest(proc, proc.stdout, Some(quick_gemini_json_str(proc.stdout)),
                proc.returncode = 0)

\* run_codex_review (quick_cross_review_and_fix.py)
quick_codex_out(proc) ==
    IF proc.exc # "none" THEN [exc |-> proc.exc]
    ELSE LET output == proc.stdout \o proc.stderr
         IN  digest(proc, output, quick_codex_json_str(output), ~has_plus(output))

-----------------------------------------------------------------------------
(* The raw-output files of IterativeCodeImprover *)

\* self.output_dir / f"iteration_{iteration}_{tool}_raw.txt"
raw_file(iter, tool) == [iteration |-> iter, tool |-> tool]

\* with open(output_file, "w") as f: f.write(text): the file is created, or
\* replaced where it is there already
write(files, name, text) ==
    {f \in files : f.name # name} \cup {[name |-> name, content |-> text]}

\* the content of a file in a session of Spec, where an output is given by
\* its digest (ProcOutputs) and its text is not followed; ParseSpec has the
\* texts and the contents
Opaque == "raw output"

\* run_gemini_review writes result.stdout once the exit status is 0
save_gemini_output(files, iter, proc, stdout) ==
    IF proc.exc = "none" /\ proc.returncode = 0
    THEN write(files, raw_file(iter, "gemini"), stdout)
    ELSE files

\* run_codex_review writes result.stdout + result.stderr unless it holds the
\* subscription text
save_codex_output(files, iter, proc, plus, output) ==
    IF proc.exc = "none" /\ ~plus
    THEN write(files, raw_file(iter, "codex"), output)
    ELSE files

-----------------------------------------------------------------------------
(* IterativeCodeImprover (iterative_code_improvement.py) *)

run_gemini_review(out) ==
    IF out.exc = "Timeout" THEN [status |-> "failed", tool |-> "gemini", error |-> "Timeout"]
    ELSE IF out.exc = "Error" THEN [status |-> "failed", tool |-> "gemini", error |-> "exception"]
    ELSE IF out.returncode = 0
         THEN IF out.decodes
              THEN [status |-> "success", tool |-> "gemini", data |-> out.data]
              ELSE [status |-> "partial", tool |-> "gemini", data |-> out.data]
         ELSE [status |-> "failed", tool |-> "gemini", error |-> "stderr"]

\* run_codex_review with the subscription test after the decoding
run_codex_review_decode_first(out) ==
    IF out.exc = "Timeout" THEN [status |-> "failed", tool |-> "codex", error |-> "Timeout"]
    ELSE IF out.exc = "Error" THEN [status |-> "failed", tool |-> "codex", error |-> "exception"]
    ELSE IF out.decodes THEN [status |-> "success", tool |-> "codex", data |-> out.data]
    ELSE IF out.plus THEN [status |-> "failed", tool |-> "codex", error |-> "Requires Plus"]
    ELSE [status |-> "partial", tool |-> "codex", data |-> out.data]

run_codex_review(out) ==
    IF out.exc = "Timeout" THEN [status |-> "failed", tool |-> "codex", error |-> "Timeout"]
    ELSE IF out.exc = "Error" THEN [status |-> "failed", tool |-> "codex", error |-> "exception"]
    ELSE IF out.plus THEN [status |-> "failed", tool |-> "codex", error |-> "Requires Plus"]
    ELSE IF out.decodes
         THEN [status |-> "success", tool |-> "codex", data |-> out.data]
         ELSE [status |-> "partial", tool |-> "codex", data |-> out.data]

\* target_reached with the boundary left out
target_reached_strict(average_score, target) == average_score > target

\* `consensus["average_score"] >= self.target_score`, `avg_score >= target_score`
target_reached(average_score, target) == average_score >= target

\* where the controller goes once the report of an iteration is in the
\* history: the rest of run_iteration and of the loop body of run
iter_decide(report, iter, target, max) ==
    IF target_reached(report.average_score, target) THEN "Converged"
    ELSE IF iter < max
         THEN IF report.consensus_issues # <<>> THEN "Repairing" ELSE "Sleeping"
         ELSE "Exhausted"

\* run, up to the loop: the availability check
IterStart ==
    /\ mode = "iterative"
    /\ pc = "Idle"
    /\ IF ~tools.gemini /\ ~tools.codex
       THEN pc' = "Aborted" /\ UNCHANGED iteration
       ELSE pc' = "ReviewGemini" /\ iteration' = 1
    /\ UNCHANGED <<mode, in_flight, audit_files, target_score, max_iterations, tools,
                   existing_files, gemini_result, codex_result, consensus, avg_score,
                   consensus_issues, review_history, fix_index, calls, proc_result, fix_log,
                   selection_vars,
                   workflow_vars>>

\* apply_improvements: what one pass of the loop over the consensus issues
\* prints about its fix
apply_improvement(out) ==
    IF out.exc # "none" THEN "Failed to apply fix"
    ELSE IF contains(Chars("upgrade to Plus"), Chars(out.output))
         THEN "Codex requires Plus subscription"
    ELSE IF in_lower("file update:", out.output) \/ in_lower("diff", out.output)
         THEN "Applied fix"
         ELSE "Fix may not have been applied"

\* run_iteration, up to the return of the Gemini review
IterGeminiReview ==
    /\ mode = "iterative"
    /\ pc = "ReviewGemini"
    /\ codex_result' = [status |-> "skipped", tool |-> "codex"]
    /\ IF tools.gemini
       THEN /\ \E out \in ProcOutputs(GeminiPayloads(mode)) :
                   /\ proc_result' = Some(out)
                   /\ audit_files' = save_gemini_output(audit_files, iteration, out, Opaque)
                   /\ gemini_result' = run_gemini_review(out)
            /\ calls' = Append(calls, Review("gemini", iteration))
       ELSE /\ gemini_result' = [status |-> "skipped", tool |-> "gemini"]
            /\ proc_result' = None
            /\ UNCHANGED <<calls, audit_files>>
    /\ pc' = "ReviewCodex"
    /\ UNCHANGED <<mode, in_flight, target_score, max_iterations, tools, existing_files,
                   iteration, consensus, avg_score, consensus_issues, review_history,
                   fix_index, fix_log, selection_vars,
                   workflow_vars>>

\* IterCodexReview that gives up on Codex once the Gemini review has failed
IterCodexReview_short_circuit ==
    /\ mode = "iterative"
    /\ pc = "ReviewCodex"
    /\ IF tools.codex /\ gemini_result.status # "failed"
       THEN /\ \E out \in ProcOutputs(CodexPayloads(mode)) :
                   /\ proc_result' = Some(out)
                   /\ audit_files' = save_codex_output(audit_files, iteration, out,
                                                       out.exc = "none" /\ out.plus, Opaque)
                   /\ codex_result' = run_codex_review(out)
            /\ calls' = Append(calls, Review("codex", iteration))
       ELSE /\ proc_result' = None
            /\ UNCHANGED <<codex_result, calls, audit_files>>
    /\ pc' = "Deciding"
    /\ UNCHANGED <<mode, in_flight, target_score, max_iterations, tools, existing_files,
                   iteration, gemini_result, consensus, avg_score, consensus_issues,
                   review_history, fix_index, fix_log, selection_vars,
                   workflow_vars>>

\* run_iteration: the Codex review
IterCodexReview ==
    /\ mode = "iterative"
    /\ pc = "ReviewCodex"
    /\ IF tools.codex
       THEN /\ \E out \in ProcOutputs(CodexPayloads(mode)) :
                   /\ proc_result' = Some(out)
                   /\ audit_files' = save_codex_output(audit_files, iteration, out,
                                                       out.exc = "none" /\ out.plus, Opaque)
                   /\ codex_result' = run_codex_review(out)
            /\ calls' = Append(calls, Review("codex", iteration))
       ELSE /\ proc_result' = None
            /\ UNCHANGED <<codex_result, calls, audit_files>>
    /\ pc' = "Deciding"
    /\ UNCHANGED <<mode, in_flight, target_score, max_iterations, tools, existing_files,
                   iteration, gemini_result, consensus, avg_score, consensus_issues,
                   review_history, fix_index, fix_log, selection_vars,
                   workflow_vars>>

\* IterDecide with the return on a reached target placed before the append
IterDecide_return_before_append ==
    /\ mode = "iterative"
    /\ pc = "Deciding"
    /\ LET report == generate_consensus_report(gemini_result, codex_result, iteration)
       IN  /\ consensus' = Some(report)
           /\ review_history' = IF target_reached(report.average_score, target_score)
                                 THEN review_history
                                 ELSE Append(review_history, report)
           /\ pc' = iter_decide(report, iteration, target_score, max_iterations)
           /\ fix_index' = IF pc' = "Repairing" THEN 1 ELSE 0
    /\ UNCHANGED <<mode, in_flight, audit_files, target_score, max_iterations, tools,
                   existing_files, iteration, gemini_result, codex_result, avg_score,
                   consensus_issues, calls, proc_result, fix_log, selection_vars,
                   workflow_vars>>

\* run_iteration: the consensus report, the history, and the decision
IterDecide ==
    /\ mode = "iterative"
    /\ pc = "Deciding"
    /\ LET report == generate_consensus_report(gemini_result, codex_result, iteration)
       IN  /\ consensus' = Some(report)
           /\ review_history' = Append(review_history, report)
           /\ pc' = iter_decide(report, iteration, target_score, max_iterations)
           /\ fix_index' = IF pc' = "Repairing" THEN 1 ELSE 0
    /\ UNCHANGED <<mode, in_flight, audit_files, target_score, max_iterations, tools,
                   existing_files, iteration, gemini_result, codex_result, avg_score,
                   consensus_issues, calls, proc_result, fix_log, selection_vars,
                   workflow_vars>>

\* IterCallRepair that starts the process and goes on to the next pass
\* without waiting for it
IterCallRepair_no_wait ==
    /\ mode = "iterative"
    /\ pc = "Repairing"
    /\ in_flight' = Append(in_flight, Repair(iteration, "."))
    /\ calls' = Append(calls, Repair(iteration, "."))
    /\ IF fix_index < Len(consensus[1].consensus_issues)
       THEN fix_index' = fix_index + 1 /\ UNCHANGED pc
       ELSE fix_index' = 0 /\ pc' = "Sleeping"
    /\ UNCHANGED <<mode, audit_files, target_score, max_iterations, tools, existing_files,
                   iteration, gemini_result, codex_result, consensus, avg_score,
                   consensus_issues, review_history, proc_result, fix_log, selection_vars,
                   workflow_vars>>

\* apply_improvements: a pass of the loop over the consensus issues as far
\* as subprocess.run starting `codex exec --sandbox workspace-write` in the
\* code directory
IterCallRepair ==
    /\ mode = "iterative"
    /\ pc = "Repairing"
    /\ in_flight = <<>>
    /\ in_flight' = <<Repair(iteration, ".")>>
    /\ calls' = Append(calls, Repair(iteration, "."))
    /\ UNCHANGED <<mode, audit_files, target_score, max_iterations, tools, existing_files,
                   iteration, gemini_result, codex_result, consensus, avg_score,
                   consensus_issues, review_history, fix_index, pc, proc_result, fix_log,
                   selection_vars,
                   workflow_vars>>

\* apply_improvements: subprocess.run returns, or raises once the process
\* is killed on the timeout, and the pass of the loop ends
IterApplyImprovement ==
    /\ mode = "iterative"
    /\ pc = "Repairing"
    /\ in_flight # <<>>
    /\ in_flight' = <<>>
    /\ \E out \in RepairOutputs :
           fix_log' = Append(fix_log, [index |-> fix_index, called |-> TRUE,
                                       applied |-> apply_improvement(out) = "Applied fix",
                                       says |-> apply_improvement(out),
                                       output |-> printed(out)])
    /\ IF fix_index < Len(consensus[1].consensus_issues)
       THEN fix_index' = fix_index + 1 /\ UNCHANGED pc
       ELSE fix_index' = 0 /\ pc' = "Sleeping"
    /\ UNCHANGED <<mode, audit_files, target_score, max_iterations, tools, existing_files,
                   iteration, gemini_result, codex_result, consensus, avg_score,
                   consensus_issues, review_history, calls, proc_result, selection_vars,
                   workflow_vars>>

\* run: asyncio.sleep(5) and the next pass of the loop
IterSleep ==
    /\ mode = "iterative"
    /\ pc = "Sleeping"
    /\ iteration' = iteration + 1
    /\ pc' = "ReviewGemini"
    /\ fix_log' = <<>>
    /\ proc_result' = None
    /\ UNCHANGED <<mode, in_flight, audit_files, target_score, max_iterations, tools,
                   existing_files, gemini_result, codex_result, consensus, avg_score,
                   consensus_issues, review_history, fix_index, calls, selection_vars,
                   workflow_vars>>

-----------------------------------------------------------------------------
(* main (quick_cross_review_and_fix.py) *)

quick_run_gemini_review(out) ==
    IF out.exc # "none" THEN [status |-> "failed"]
    ELSE IF out.returncode = 0 /\ out.decodes
         THEN [status |-> "success", data |-> out.data]
         ELSE [status |-> "failed"]

quick_run_codex_review(out) ==
    IF out.exc # "none" THEN [status |-> "failed"]
    ELSE IF out.plus THEN [status |-> "skipped"]
    ELSE IF out.decodes
         THEN [status |-> "success", data |-> out.data]
         ELSE [status |-> "failed"]

\* the list `scores` of main
quick_scores(g_result, c_result) ==
    (IF g_result.status = "success"
     THEN <<get(g_result.data, "overall_score", 0)>> ELSE <<>>)
    \o (IF c_result.status = "success"
        THEN <<get(c_result.data, "overall_score", 0)>> ELSE <<>>)

\* quick_consensus_step with the fix loop outside the branch that requires two
\* successful reviews, so that it runs on the issues of an earlier pass
quick_consensus_step_dedented(g_result, c_result, issues, iter, max) ==
    LET found == IF g_result.status = "success" /\ c_result.status = "success"
                 THEN Some(find_consensus_issues(g_result.data, c_result.data))
                 ELSE issues
    IN  IF found = None \/ found = Some(<<>>)
        THEN [consensus_issues |-> found,
              pc        |-> IF iter < max THEN "ReviewGemini" ELSE "Exhausted",
              iteration |-> IF iter < max THEN iter + 1 ELSE iter]
        ELSE [consensus_issues |-> found, pc |-> "Repairing", iteration |-> iter]

\* the loop body of main below the target check, up to the first fix or the
\* end of the pass: the new value of consensus_issues, and where the
\* controller goes (`continue` starts the next pass without sleeping)
quick_consensus_step(g_result, c_result, issues, iter, max) ==
    IF g_result.status = "success" /\ c_result.status = "success"
    THEN LET found == find_consensus_issues(g_result.data, c_result.data)
         IN  IF found = <<>>
             THEN [consensus_issues |-> Some(found),
                   pc        |-> IF iter < max THEN "ReviewGemini" ELSE "Exhausted",
                   iteration |-> IF iter < max THEN iter + 1 ELSE iter]
             ELSE [consensus_issues |-> Some(found), pc |-> "Repairing", iteration |-> iter]
    ELSE [consensus_issues |-> issues,
          pc        |-> IF iter < max THEN "Sleeping" ELSE "Exhausted",
          iteration |-> iter]

\* apply_fix: whether the provider is called, the value returned (applied) and
\* the line printed
apply_fix(code_directory, issue, out) ==
    IF issue.file \notin code_directory
    THEN [called |-> FALSE, applied |-> FALSE, says |-> "File not found"]
    ELSE IF out.exc = "Timeout"
         THEN [called |-> TRUE, applied |-> FALSE, says |-> "Timeout while applying fix"]
    ELSE IF out.exc # "none"
         THEN [called |-> TRUE, applied |-> FALSE, says |-> "Error applying fix"]
    ELSE IF contains(Chars("upgrade to Plus"), Chars(out.output))
         THEN [called |-> TRUE, applied |-> FALSE, says |-> "Codex requires Plus"]
    ELSE IF in_lower("file update:", out.output) \/ in_lower("diff", out.output)
         THEN [called |-> TRUE, applied |-> TRUE, says |-> "Fix applied"]
    ELSE IF in_lower("applied", out.output) \/ in_lower("fixed", out.output)
         THEN [called |-> TRUE, applied |-> TRUE, says |-> "Fix applied"]
         ELSE [called |-> TRUE, applied |-> FALSE,
               says |-> "Fix may not have been applied"]

\* main, up to the loop: the tools are looked up, and nothing stops the
\* session when none is found
QuickStart ==
    /\ mode = "quick"
    /\ pc = "Idle"
    /\ pc' = "ReviewGemini"
    /\ iteration' = 1
    /\ UNCHANGED <<mode, in_flight, audit_files, target_score, max_iterations, tools,
                   existing_files, gemini_result, codex_result, consensus, avg_score,
                   consensus_issues, review_history, fix_index, calls, proc_result, fix_log,
                   selection_vars,
                   workflow_vars>>

QuickGeminiReview ==
    /\ mode = "quick"
    /\ pc = "ReviewGemini"
    /\ IF tools.gemini
       THEN /\ \E out \in ProcOutputs(GeminiPayloads(mode)) :
                   /\ proc_result' = Some(out)
                   /\ gemini_result' = quick_run_gemini_review(out)
            /\ calls' = Append(calls, Review("gemini", iteration))
       ELSE /\ gemini_result' = [status |-> "skipped"]
            /\ proc_result' = None
            /\ UNCHANGED calls
    /\ pc' = "ReviewCodex"
    /\ UNCHANGED <<mode, in_flight, audit_files, target_score, max_iterations, tools,
                   existing_files, iteration, codex_result, consensus, avg_score,
                   consensus_issues, review_history, fix_index, fix_log, selection_vars,
                   workflow_vars>>

\* QuickCodexReview without the test of has_codex
QuickCodexReview_unchecked ==
    /\ mode = "quick"
    /\ pc = "ReviewCodex"
    /\ \E out \in ProcOutputs(CodexPayloads(mode)) :
           /\ proc_result' = Some(out)
           /\ codex_result' = quick_run_codex_review(out)
    /\ calls' = Append(calls, Review("codex", iteration))
    /\ pc' = "Deciding"
    /\ UNCHANGED <<mode, in_flight, audit_files, target_score, max_iterations, tools,
                   existing_files, iteration, gemini_result, consensus, avg_score,
                   consensus_issues, review_history, fix_index, fix_log, selection_vars,
                   workflow_vars>>

QuickCodexReview ==
    /\ mode = "quick"
    /\ pc = "ReviewCodex"
    /\ IF tools.codex
       THEN /\ \E out \in ProcOutputs(CodexPayloads(mode)) :
                   /\ proc_result' = Some(out)
                   /\ codex_result' = quick_run_codex_review(out)
            /\ calls' = Append(calls, Review("codex", iteration))
       ELSE /\ codex_result' = [status |-> "skipped"]
            /\ proc_result' = None
            /\ UNCHANGED calls
    /\ pc' = "Deciding"
    /\ UNCHANGED <<mode, in_flight, audit_files, target_score, max_iterations, tools,
                   existing_files, iteration, gemini_result, consensus, avg_score,
                   consensus_issues, review_history, fix_index, fix_log, selection_vars,
                   workflow_vars>>

\* main: the average, the target check and the consensus search
QuickDecide ==
    /\ mode = "quick"
    /\ pc = "Deciding"
    /\ LET scores == quick_scores(gemini_result, codex_result)
       IN  IF scores = <<>>
           THEN /\ pc' = "NoSuccessfulReviews"
                /\ UNCHANGED <<avg_score, consensus_issues, iteration, fix_index>>
           ELSE /\ avg_score' = Some(mean(scores))
                /\ IF target_reached(mean(scores), target_score)
                   THEN /\ pc' = "Converged"
                        /\ UNCHANGED <<consensus_issues, iteration, fix_index>>
                   ELSE LET step == quick_consensus_step(gemini_result, codex_result,
                                        consensus_issues, iteration, max_iterations)
                        IN  /\ consensus_issues' = step.consensus_issues
                            /\ pc' = step.pc
                            /\ iteration' = step.iteration
                            /\ fix_index' = IF step.pc = "Repairing" THEN 1 ELSE 0
    /\ proc_result' = IF pc' = "ReviewGemini" THEN None ELSE proc_result
    /\ UNCHANGED <<mode, in_flight, audit_files, target_score, max_iterations, tools,
                   existing_files, gemini_result, codex_result, consensus, review_history,
                   calls, fix_log, selection_vars,
                   workflow_vars>>

\* QuickCallFix without the test of file_path.exists()
QuickCallFix_unchecked ==
    /\ mode = "quick"
    /\ pc = "Repairing"
    /\ in_flight = <<>>
    /\ in_flight' = <<Repair(iteration, consensus_issues[1][fix_index].file)>>
    /\ calls' = Append(calls, Repair(iteration, consensus_issues[1][fix_index].file))
    /\ UNCHANGED <<mode, audit_files, target_score, max_iterations, tools, existing_files,
                   iteration, gemini_result, codex_result, consensus, avg_score,
                   consensus_issues, review_history, fix_index, pc, proc_result, fix_log,
                   selection_vars,
                   workflow_vars>>

\* apply_fix, once the file is found, as far as subprocess.run starting
\* `codex exec --sandbox workspace-write` in the code directory
QuickCallFix ==
    /\ mode = "quick"
    /\ pc = "Repairing"
    /\ in_flight = <<>>
    /\ consensus_issues[1][fix_index].file \in existing_files
    /\ in_flight' = <<Repair(iteration, consensus_issues[1][fix_index].file)>>
    /\ calls' = Append(calls, Repair(iteration, consensus_issues[1][fix_index].file))
    /\ UNCHANGED <<mode, audit_files, target_score, max_iterations, tools, existing_files,
                   iteration, gemini_result, codex_result, consensus, avg_score,
                   consensus_issues, review_history, fix_index, pc, proc_result, fix_log,
                   selection_vars,
                   workflow_vars>>

\* QuickApplyFix that leaves the loop at the first issue whose file is missing
QuickApplyFix_stop_on_missing ==
    /\ mode = "quick"
    /\ pc = "Repairing"
    /\ in_flight # <<>> \/ consensus_issues[1][fix_index].file \notin existing_files
    /\ in_flight' = <<>>
    /\ \E out \in RepairOutputs :
           LET issue == consensus_issues[1][fix_index]
               fix   == apply_fix(existing_files, issue, out)
           IN  /\ fix_log' = Append(fix_log, [index |-> fix_index, called |-> fix.called,
                                               applied |-> fix.applied, says |-> fix.says,
                                               output |-> IF fix.called THEN printed(out)
                                                                        ELSE ""])
               /\ IF fix_index < Len(consensus_issues[1]) /\ fix.called
                  THEN fix_index' = fix_index + 1 /\ UNCHANGED pc
                  ELSE /\ fix_index' = 0
                       /\ pc' = IF iteration < max_iterations THEN "Sleeping"
                                                               ELSE "Exhausted"
    /\ UNCHANGED <<mode, audit_files, target_score, max_iterations, tools, existing_files,
                   iteration, gemini_result, codex_result, consensus, avg_score,
                   consensus_issues, review_history, calls, proc_result, selection_vars,
                   workflow_vars>>

\* main: one pass of the loop over consensus_issues: apply_fix on an issue
\* whose file is missing, or subprocess.run returning (or raising once the
\* process is killed on the timeout) and the rest of apply_fix
QuickApplyFix ==
    /\ mode = "quick"
    /\ pc = "Repairing"
    /\ in_flight # <<>> \/ consensus_issues[1][fix_index].file \notin existing_files
    /\ in_flight' = <<>>
    /\ \E out \in RepairOutputs :
           LET issue == consensus_issues[1][fix_index]
               fix   == apply_fix(existing_files, issue, out)
           IN  /\ fix_log' = Append(fix_log, [index |-> fix_index, called |-> fix.called,
                                               applied |-> fix.applied, says |-> fix.says,
                                               output |-> IF fix.called THEN printed(out)
                                                                        ELSE ""])
    /\ IF fix_index < Len(consensus_issues[1])
       THEN fix_index' = fix_index + 1 /\ UNCHANGED pc
       ELSE /\ fix_index' = 0
            /\ pc' = IF iteration < max_iterations THEN "Sleeping" ELSE "Exhausted"
    /\ UNCHANGED <<mode, audit_files, target_score, max_iterations, tools, existing_files,
                   iteration, gemini_result, codex_result, consensus, avg_score,
                   consensus_issues, review_history, calls, proc_result, selection_vars,
                   workflow_vars>>

\* main: time.sleep(3) and the next pass of the loop
QuickSleep ==
    /\ mode = "quick"
    /\ pc = "Sleeping"
    /\ iteration' = iteration + 1
    /\ pc' = "ReviewGemini"
    /\ fix_log' = <<>>
    /\ proc_result' = None
    /\ UNCHANGED <<mode, in_flight, audit_files, target_score, max_iterations, tools,
                   existing_files, gemini_result, codex_result, consensus, avg_score,
                   consensus_issues, review_history, fix_index, calls, selection_vars,
                   workflow_vars>>

-----------------------------------------------------------------------------
(* A session of either controller.  The sleeps' duration, the files written
   (raw outputs, reports, the history dump of generate_final_report) and
   the printing, but for the line each pass of a repair loop prints about
   its fix (fix_log), are left out: no decision of a controller reads
   them. *)

Init ==
    /\ mode \in {"iterative", "quick"}
    /\ target_score \in Targets
    /\ max_iterations \in 1..MaxIterations
    /\ tools \in [gemini : BOOLEAN, codex : BOOLEAN]
    /\ pc = "Idle"
    /\ iteration = 0
    /\ gemini_result = None
    /\ codex_result = None
    /\ consensus = None
    /\ avg_score = None
    /\ consensus_issues = None
    /\ review_history = <<>>
    /\ fix_index = 0
    /\ calls = <<>>
    /\ existing_files \in Directories
    /\ mode = "iterative" => existing_files = Files
    /\ proc_result = None
    /\ fix_log = <<>>
    /\ audit_files = {}
    /\ in_flight = <<>>
    /\ config_files = None
    /\ llm_class = None
    /\ agent = None
    /\ task_type = None
    /\ sessions = None
    /\ loop_running = None
    /\ api_outcome = None
    /\ reviews = None
    /\ summary = None

Next ==
    \/ IterStart
    \/ IterGeminiReview
    \/ IterCodexReview
    \/ IterDecide
    \/ IterCallRepair
    \/ IterApplyImprovement
    \/ IterSleep
    \/ QuickStart
    \/ QuickGeminiReview
    \/ QuickCodexReview
    \/ QuickDecide
    \/ QuickCallFix
    \/ QuickApplyFix
    \/ QuickSleep

Spec == Init /\ [][Next]_vars

-----------------------------------------------------------------------------
(* The matchers on their own: every pair of issue lists up to MaxIssues *)

MatchData(issues) ==
    [overall_score |-> 14, top_issues |-> issues, critical_issues |-> issues]

MatchInit ==
    /\ mode = "match"
    /\ target_score = 16
    /\ max_iterations = 1
    /\ tools = [gemini |-> TRUE, codex |-> TRUE]
    /\ pc = "MatchInput"
    /\ iteration = 1
    /\ \E g \in IssueLists(MaxIssues) :
           gemini_result = [status |-> "success", tool |-> "gemini", data |-> MatchData(g)]
    /\ \E c \in IssueLists(MaxIssues) :
           codex_result = [status |-> "success", tool |-> "codex", data |-> MatchData(c)]
    /\ consensus = None
    /\ avg_score = None
    /\ consensus_issues = None
    /\ review_history = <<>>
    /\ fix_index = 0
    /\ calls = <<>>
    /\ existing_files = Files
    /\ proc_result = None
    /\ fix_log = <<>>
    /\ audit_files = {}
    /\ in_flight = <<>>
    /\ config_files = None
    /\ llm_class = None
    /\ agent = None
    /\ task_type = None
    /\ sessions = None
    /\ loop_running = None
    /\ api_outcome = None
    /\ reviews = None
    /\ summary = None

ApplyLocality ==
    /\ mode = "match"
    /\ pc = "MatchInput"
    /\ consensus_issues' = Some(find_consensus_issues(gemini_result.data, codex_result.data))
    /\ pc' = "LocalityDone"
    /\ UNCHANGED <<mode, in_flight, audit_files, target_score, max_iterations, tools,
                   existing_files, iteration, gemini_result, codex_result, consensus,
                   avg_score, review_history, fix_index, calls, proc_result, fix_log,
                   selection_vars,
                   workflow_vars>>

ApplyKeyword ==
    /\ mode = "match"
    /\ pc = "MatchInput"
    /\ consensus' = Some(generate_consensus_report(gemini_result, codex_result, iteration))
    /\ pc' = "KeywordDone"
    /\ UNCHANGED <<mode, in_flight, audit_files, target_score, max_iterations, tools,
                   existing_files, iteration, gemini_result, codex_result, avg_score,
                   consensus_issues, review_history, fix_index, calls, proc_result, fix_log,
                   selection_vars,
                   workflow_vars>>

MatchNext == ApplyLocality \/ ApplyKeyword

MatchSpec == MatchInit /\ [][MatchNext]_vars

-----------------------------------------------------------------------------
(* The four review functions on their own, on outputs given as texts *)

\* the text json.dumps gives for an issue and for a review object whose
\* issue list is under the key k
dumps_issue(i) ==
    <<LB, Member("file", i.file), Member("line", i.line), Member("issue", i.issue),
      Member("severity", i.severity), RB>>

dumps(k, score, issues) ==
    <<LB, Member("overall_score", score), Key(k), LS>>
    \o flatten([n \in 1..Len(issues) |-> dumps_issue(issues[n])])
    \o <<RS, RB>>

\* the review objects a reviewer prints: a score and up to MaxIssues issues
TextPayloads ==
    {[key |-> k, score |-> sc, issues |-> l] :
        k \in {"critical_issues", "top_issues"}, sc \in Scores,
        l \in UNION {[1..n -> {P1, P4}] : n \in 0..MaxIssues}}

\* a review object printed bare or in a fenced block, with or without
\* narrative text in front and behind
Wrappings(p) ==
    {pre \o body \o post :
        pre \in {<<>>, <<Word>>}, post \in {<<>>, <<Word>>},
        body \in {dumps(p.key, p.score, p.issues),
                  <<FenceJson>> \o dumps(p.key, p.score, p.issues) \o <<Fence>>}}

\* outputs that hold no review object: nothing, narrative text with and
\* without score mentions ("score: 85/100" gives the mention 85) and
\* severity lines ("Please follow the steps" in front of one), an object cut
\* short, a fenced object without the closing fence, an array, stray braces
OtherTexts ==
    {<<>>,
     <<Word>>,
     <<Word, ScoreMention(14)>>,
     <<ScoreMention(14), Word, ScoreMention(18)>>,
     <<ScoreMention(170)>>,
     <<SeverityLine("high", "unused import "), Word, ScoreMention(18)>>,
     [n \in 1..6 |-> SeverityLine("LOW", "missing docstring")],
     <<SeverityWord("low", "the steps"), SeverityLine("HIGH", "hard-coded device string")>>,
     <<LB, Member("overall_score", 14)>>,
     <<FenceJson, LB, Member("overall_score", 14), RB>>,
     <<LS, RS>>,
     <<Word, RB>>}

\* the example object of a review prompt, as a reviewer repeats it in its
\* narrative: a score and an issue no review object of TextPayloads carries,
\* with and without the issue
Examples(k) == {dumps(k, 10, <<>>), dumps(k, 10, <<P2>>)}

\* a review object at the end of a narrative that holds an example object
Narrated(p) == {<<Word>> \o ex \o <<Word>> \o dumps(p.key, p.score, p.issues) :
                   ex \in Examples(p.key)}

Texts ==
    (UNION {Wrappings(p) : p \in TextPayloads})
    \cup (UNION {Narrated(p) : p \in TextPayloads})
    \cup OtherTexts

\* the result of subprocess.run in a review, with its output as text
TextProcs ==
    {[exc |-> e] : e \in {"Timeout", "Error"}}
    \cup {[exc |-> "none", returncode |-> rc, stdout |-> out, stderr |-> err] :
             rc \in {0, 1}, out \in Texts, err \in {<<>>, <<Word>>, <<PlusText>>}}

ParseInit ==
    /\ mode = "parse"
    /\ target_score = 16
    /\ max_iterations = 1
    /\ tools = [gemini |-> TRUE, codex |-> TRUE]
    /\ pc = "ParseInput"
    /\ iteration = 1
    /\ \E proc \in TextProcs : proc_result = Some(proc)
    /\ gemini_result = None
    /\ codex_result = None
    /\ consensus = None
    /\ avg_score = None
    /\ consensus_issues = None
    /\ review_history = <<>>
    /\ fix_index = 0
    /\ calls = <<>>
    /\ existing_files = Files
    /\ fix_log = <<>>
    /\ audit_files = {}
    /\ in_flight = <<>>
    /\ config_files = None
    /\ llm_class = None
    /\ agent = None
    /\ task_type = None
    /\ sessions = None
    /\ loop_running = None
    /\ api_outcome = None
    /\ reviews = None
    /\ summary = None

ParseIterGemini ==
    /\ mode = "parse"
    /\ pc = "ParseInput"
    /\ gemini_result' = run_gemini_review(iter_gemini_out(proc_result[1]))
    /\ audit_files' = LET proc == proc_result[1]
                      IN  IF proc.exc # "none" THEN audit_files
                          ELSE save_gemini_output(audit_files, iteration, proc, proc.stdout)
    /\ pc' = "IterGeminiDone"
    /\ UNCHANGED <<mode, in_flight, target_score, max_iterations, tools, existing_files,
                   iteration, codex_result, consensus, avg_score, consensus_issues,
                   review_history, fix_index, calls, proc_result, fix_log, selection_vars,
                   workflow_vars>>

ParseIterCodex ==
    /\ mode = "parse"
    /\ pc = "ParseInput"
    /\ codex_result' = run_codex_review(iter_codex_out(proc_result[1]))
    /\ audit_files' = LET proc == proc_result[1]
                      IN  IF proc.exc # "none" THEN audit_files
                          ELSE save_codex_output(audit_files, iteration, proc,
                                                 has_plus(proc.stdout \o proc.stderr),
                                                 proc.stdout \o proc.stderr)
    /\ pc' = "IterCodexDone"
    /\ UNCHANGED <<mode, in_flight, target_score, max_iterations, tools, existing_files,
                   iteration, gemini_result, consensus, avg_score, consensus_issues,
                   review_history, fix_index, calls, proc_result, fix_log, selection_vars,
                   workflow_vars>>

ParseQuickGemini ==
    /\ mode = "parse"
    /\ pc = "ParseInput"
    /\ gemini_result' = quick_run_gemini_review(quick_gemini_out(proc_result[1]))
    /\ pc' = "QuickGeminiDone"
    /\ UNCHANGED <<mode, in_flight, audit_files, target_score, max_iterations, tools,
                   existing_files, iteration, codex_result, consensus, avg_score,
                   consensus_issues, review_history, fix_index, calls, proc_result, fix_log,
                   selection_vars,
                   workflow_vars>>

ParseQuickCodex ==
    /\ mode = "parse"
    /\ pc = "ParseInput"
    /\ codex_result' = quick_run_codex_review(quick_codex_out(proc_result[1]))
    /\ pc' = "QuickCodexDone"
    /\ UNCHANGED <<mode, in_flight, audit_files, target_score, max_iterations, tools,
                   existing_files, iteration, gemini_result, consensus, avg_score,
                   consensus_issues, review_history, fix_index, calls, proc_result, fix_log,
                   selection_vars,
                   workflow_vars>>

ParseNext == ParseIterGemini \/ ParseIterCodex \/ ParseQuickGemini \/ ParseQuickCodex

ParseSpec == ParseInit /\ [][ParseNext]_vars

-----------------------------------------------------------------------------
(* Aggregation, matching and repair on payloads of any JSON type.

   json.loads gives whatever the reviewer printed: a score can be a string
   or null, an issue can lack a key or carry null under it.  The operators
   above compute with the values a well-typed payload carries; the ones
   below follow the same statements with every value tagged by its Python
   type, and tell which statement raises.  Nothing catches an exception in
   generate_consensus_report, in find_consensus_issues, in main outside the
   review functions, or in apply_fix ahead of its try. *)

JNum(n) == [t |-> "number", v |-> n]
JStr(s) == [t |-> "string", v |-> s]
JNull   == [t |-> "null"]
JDict(d) == [t |-> "dict", v |-> d]

is_number(x) == x.t = "number"

\* x == y on two scalars
py_eq(x, y) == x.t = y.t /\ (x.t = "null" \/ x.v = y.v)

\* d.get(key, default) on a dict
jget(d, key, default) == IF key \in DOMAIN d.v THEN d.v[key] ELSE default

\* a function returned, or raised the exception e
Returns(val) == [raised |-> "none", val |-> val]
Raises(e) == [raised |-> e]

\* sum(scores) / len(scores): int + str and int + None raise TypeError
typed_mean(scores) ==
    IF \A k \in 1..Len(scores) : is_number(scores[k])
    THEN Returns(sum([k \in 1..Len(scores) |-> scores[k].v]) \div Len(scores))
    ELSE Raises("TypeError")

\* generate_consensus_report as far as the average: the scores of the
\* reviews that succeeded, and their mean
typed_report_average(g_result, c_result) ==
    LET scores ==
            (IF succeeded(g_result)
             THEN <<get(g_result.data, "overall_score", JNum(0))>> ELSE <<>>)
            \o (IF succeeded(c_result)
                THEN <<get(c_result.data, "overall_score", JNum(0))>> ELSE <<>>)
    IN  IF scores = <<>> THEN Returns(0) ELSE typed_mean(scores)

\* main: scores and avg_score
typed_quick_average(g_result, c_result) ==
    LET scores ==
            (IF g_result.status = "success"
             THEN <<get(g_result.data, "overall_score", JNum(0))>> ELSE <<>>)
            \o (IF c_result.status = "success"
                THEN <<get(c_result.data, "overall_score", JNum(0))>> ELSE <<>>)
    IN  IF scores = <<>> THEN Returns(None) ELSE typed_mean(scores)

\* find_consensus_issues, the inner loop over codex_issues from index j on:
\* the index at which it breaks (0 when it ends without a match).  The
\* subtraction is evaluated only once the files compare equal.
RECURSIVE typed_inner_loop(_, _, _, _)
typed_inner_loop(g_file, g_line, codex_issues, j) ==
    IF j > Len(codex_issues) THEN Returns(0)
    ELSE IF codex_issues[j].t # "dict" THEN Raises("AttributeError")
    ELSE LET c_file == jget(codex_issues[j], "file", JStr(""))
             c_line == jget(codex_issues[j], "line", JNum(0))
         IN  IF ~py_eq(g_file, c_file)
             THEN typed_inner_loop(g_file, g_line, codex_issues, j + 1)
             ELSE IF ~(is_number(g_line) /\ is_number(c_line))
                  THEN Raises("TypeError")
             ELSE IF abs(g_line.v - c_line.v) <= LineWindow
                  THEN Returns(j)
                  ELSE typed_inner_loop(g_file, g_line, codex_issues, j + 1)

\* find_consensus_issues, the outer loop over gemini_issues from index i on
RECURSIVE typed_outer_loop(_, _, _, _)
typed_outer_loop(gemini_issues, codex_issues, i, found) ==
    IF i > Len(gemini_issues) THEN Returns(found)
    ELSE IF gemini_issues[i].t # "dict" THEN Raises("AttributeError")
    ELSE LET g_file == jget(gemini_issues[i], "file", JStr(""))
             g_line == jget(gemini_issues[i], "line", JNum(0))
             at     == typed_inner_loop(g_file, g_line, codex_issues, 1)
         IN  IF at.raised # "none" THEN at
             ELSE typed_outer_loop(gemini_issues, codex_issues, i + 1,
                      IF at.val = 0 THEN found
                      ELSE Append(found, [file |-> g_file, line |-> g_line,
                                          severity |-> jget(gemini_issues[i], "severity",
                                                            JStr("")),
                                          gemini_issue |-> gemini_issues[i],
                                          codex_issue |-> codex_issues[at.val]]))

typed_find_consensus_issues(gemini_data, codex_data) ==
    typed_outer_loop(get(gemini_data, "top_issues", <<>>),
                     get(codex_data, "top_issues", <<>>), 1, <<>>)

\* apply_fix ahead of its try: `code_directory / issue["file"]` raises
\* TypeError unless the file is a string
typed_path(issue) ==
    IF issue.file.t = "string" THEN Returns(issue.file.v) ELSE Raises("TypeError")

\* main: the loop over consensus_issues ends at the first apply_fix that
\* raises
typed_fix_loop(issues) ==
    LET bad == {k \in 1..Len(issues) : typed_path(issues[k]).raised # "none"}
    IN  IF bad = {} THEN Returns(Len(issues))
        ELSE typed_path(issues[CHOOSE k \in bad : \A m \in bad : k <= m])

\* issues as a reviewer can report them: complete, with null under line or
\* file, without the key file or line
F1 == JDict([file |-> JStr("x.py"), line |-> JNum(10), issue |-> JStr("hard-coded device string")])
F2 == JDict([file |-> JStr("x.py"), line |-> JNull, issue |-> JStr("GPU device not configurable")])
F3 == JDict([file |-> JNull, line |-> JNum(10), issue |-> JStr("unused import")])
F4 == JDict([line |-> JNum(12), issue |-> JStr("missing docstring")])
F5 == JDict([file |-> JStr("x.py"), issue |-> JStr("unused import")])

FaultPool == {F1, F2, F3, F4, F5}

FaultLists == UNION {[1..k -> FaultPool] : k \in 0..MaxIssues}

\* a decoded review object with an overall_score (7.0, a string, null) or
\* without one
TypedData(score, issues) ==
    IF score = None
    THEN [top_issues |-> issues, critical_issues |-> issues]
    ELSE [overall_score |-> score[1], top_issues |-> issues, critical_issues |-> issues]

TypedScores == {Some(JNum(14)), Some(JStr("high")), Some(JNull), None}

\* pairs of payloads: every pair of scores on one pair of issue lists, and
\* every pair of issue lists under the score 7.0
FaultInputs ==
    {<<TypedData(gs, <<F1>>), TypedData(cs, <<F1>>)>> : gs \in TypedScores, cs \in TypedScores}
    \cup {<<TypedData(Some(JNum(14)), g), TypedData(Some(JNum(14)), c)>> :
             g \in FaultLists, c \in FaultLists}

FaultInit ==
    /\ mode = "fault"
    /\ target_score = 16
    /\ max_iterations = 1
    /\ tools = [gemini |-> TRUE, codex |-> TRUE]
    /\ pc = "FaultInput"
    /\ iteration = 1
    /\ \E pair \in FaultInputs :
           /\ gemini_result = [status |-> "success", tool |-> "gemini", data |-> pair[1]]
           /\ codex_result = [status |-> "success", tool |-> "codex", data |-> pair[2]]
    /\ consensus = None
    /\ avg_score = None
    /\ consensus_issues = None
    /\ review_history = <<>>
    /\ fix_index = 0
    /\ calls = <<>>
    /\ existing_files = Files
    /\ proc_result = None
    /\ fix_log = <<>>
    /\ audit_files = {}
    /\ in_flight = <<>>
    /\ config_files = None
    /\ llm_class = None
    /\ agent = None
    /\ task_type = None
    /\ sessions = None
    /\ loop_running = None
    /\ api_outcome = None
    /\ reviews = None
    /\ summary = None

\* generate_consensus_report: the average
FaultIterAverage ==
    /\ mode = "fault"
    /\ pc = "FaultInput"
    /\ LET r == typed_report_average(gemini_result, codex_result)
       IN  IF r.raised # "none"
           THEN pc' = "Raised" /\ UNCHANGED avg_score
           ELSE pc' = "IterAveraged" /\ avg_score' = Some(r.val)
    /\ UNCHANGED <<mode, target_score, max_iterations, tools, iteration, gemini_result,
                   codex_result, consensus, consensus_issues, review_history, fix_index,
                   calls, existing_files, proc_result, fix_log, audit_files, in_flight,
                   selection_vars,
                   workflow_vars>>

\* main: avg_score and the target check
FaultQuickAverage ==
    /\ mode = "fault"
    /\ pc = "FaultInput"
    /\ LET r == typed_quick_average(gemini_result, codex_result)
       IN  IF r.raised # "none"
           THEN pc' = "Raised" /\ UNCHANGED avg_score
           ELSE /\ avg_score' = Some(r.val)
                /\ pc' = IF target_reached(r.val, target_score) THEN "Converged"
                                                                ELSE "QuickAveraged"
    /\ UNCHANGED <<mode, target_score, max_iterations, tools, iteration, gemini_result,
                   codex_result, consensus, consensus_issues, review_history, fix_index,
                   calls, existing_files, proc_result, fix_log, audit_files, in_flight,
                   selection_vars,
                   workflow_vars>>

\* main: find_consensus_issues
FaultQuickMatch ==
    /\ mode = "fault"
    /\ pc = "QuickAveraged"
    /\ LET r == typed_find_consensus_issues(gemini_result.data, codex_result.data)
       IN  IF r.raised # "none"
           THEN pc' = "Raised" /\ UNCHANGED consensus_issues
           ELSE pc' = "QuickMatched" /\ consensus_issues' = Some(r.val)
    /\ UNCHANGED <<mode, target_score, max_iterations, tools, iteration, gemini_result,
                   codex_result, consensus, avg_score, review_history, fix_index, calls,
                   existing_files, proc_result, fix_log, audit_files, in_flight,
                   selection_vars,
                   workflow_vars>>

\* main: the loop of apply_fix over the consensus issues
FaultQuickFix ==
    /\ mode = "fault"
    /\ pc = "QuickMatched"
    /\ consensus_issues[1] # <<>>
    /\ LET r == typed_fix_loop(consensus_issues[1])
       IN  IF r.raised # "none"
           THEN pc' = "Raised" /\ UNCHANGED fix_index
           ELSE pc' = "QuickFixed" /\ fix_index' = r.val
    /\ UNCHANGED <<mode, target_score, max_iterations, tools, iteration, gemini_result,
                   codex_result, consensus, avg_score, consensus_issues, review_history,
                   calls, existing_files, proc_result, fix_log, audit_files, in_flight,
                   selection_vars,
                   workflow_vars>>

FaultNext == FaultIterAverage \/ FaultQuickAverage \/ FaultQuickMatch \/ FaultQuickFix

FaultSpec == FaultInit /\ [][FaultNext]_vars

-----------------------------------------------------------------------------
(* get_preferred_llm_class (utils/llm_utils.py).

   yaml.safe_load gives None for an empty file and a mapping otherwise; the
   values of a mapping are tagged with their type as above. *)

\* bool(x)
truthy(x) ==
    CASE x.t = "null" -> FALSE
      [] x.t = "string" -> Chars(x.v) # <<>>
      [] x.t = "number" -> x.v # 0
      [] x.t = "dict" -> DOMAIN x.v # {}

\* str.strip() on the characters of a string
RECURSIVE lstrip(_)
lstrip(cs) == IF cs # <<>> /\ Head(cs) = " " THEN lstrip(Tail(cs)) ELSE cs

RECURSIVE rstrip(_)
rstrip(cs) ==
    IF cs # <<>> /\ cs[Len(cs)] = " " THEN rstrip(SubSeq(cs, 1, Len(cs) - 1)) ELSE cs

str_strip(cs) == rstrip(lstrip(cs))

\* a block of the function ended without a return
Continues == Returns("no return")

\* the block on the main config: None has no .get, and a default_llm_provider
\* that is no string has no .lower
main_config_block(main_config) ==
    IF main_config.t # "dict" THEN Raises("AttributeError")
    ELSE LET provider == jget(main_config, "default_llm_provider", JStr(""))
         IN  IF provider.t # "string" THEN Raises("AttributeError")
             ELSE LET default_provider == lower(Chars(provider.v))
                  IN  IF default_provider = Chars("ollama")
                      THEN Returns("OllamaAugmentedLLM")
                      ELSE IF default_provider = Chars("anthropic")
                           THEN Returns("AnthropicAugmentedLLM")
                      ELSE IF default_provider = Chars("openai")
                           THEN Returns("OpenAIAugmentedLLM")
                           ELSE Continues

\* the block on the secrets file
secrets_block(config) ==
    IF config.t # "dict" THEN Raises("AttributeError")
    ELSE LET anthropic_config == jget(config, "anthropic", JDict(<<>>))
         IN  IF anthropic_config.t # "dict" THEN Raises("AttributeError")
             ELSE LET anthropic_key == jget(anthropic_config, "api_key", JStr(""))
                      ollama_config == jget(config, "ollama", JDict(<<>>))
                  IN  IF truthy(anthropic_key) /\ anthropic_key.t # "string"
                      THEN Raises("AttributeError")
                      ELSE IF truthy(anthropic_key)
                              /\ str_strip(Chars(anthropic_key.v)) # <<>>
                           THEN Returns("AnthropicAugmentedLLM")
                      ELSE IF truthy(ollama_config)
                           THEN Returns("OllamaAugmentedLLM")
                           ELSE Returns("OpenAIAugmentedLLM")

\* get_preferred_llm_class; a path stands for what is found under it: None
\* for no file, else the loaded content.  Every exception ends in the
\* handler that returns OpenAIAugmentedLLM.
get_preferred_llm_class(config_path, main_config_path) ==
    LET main == IF main_config_path = None THEN Continues
                ELSE main_config_block(main_config_path[1])
    IN  IF main.raised # "none" THEN "OpenAIAugmentedLLM"
        ELSE IF main # Continues THEN main.val
        ELSE IF config_path = None THEN "OpenAIAugmentedLLM"
        ELSE LET secrets == secrets_block(config_path[1])
             IN  IF secrets.raised # "none" THEN "OpenAIAugmentedLLM"
                 ELSE secrets.val

\* a mapping with the key k, or without it for None
entry(k, v) == IF v = None THEN <<>> ELSE (k :> v[1])

\* contents of mcp_agent.config.yaml: empty, without the key, with a
\* provider name (in any case), another name, an empty string, null
MainConfigs ==
    {JNull, JDict(<<>>)}
    \cup {JDict(entry("default_llm_provider", Some(p))) :
             p \in {JStr("ollama"), JStr("Anthropic"), JStr("OPENAI"), JStr("google"),
                    JStr(""), JNull}}

\* sections of mcp_agent.secrets.yaml: absent (None), null, empty, filled
AnthropicSections ==
    {None, Some(JNull), Some(JDict(<<>>))}
    \cup {Some(JDict(entry("api_key", Some(k)))) :
             k \in {JStr(""), JStr("  "), JStr("sk-ant-1"), JNull}}

OllamaSections ==
    {None, Some(JNull), Some(JDict(<<>>)),
     Some(JDict(entry("base_url", Some(JStr("localhost")))))}

SecretsConfigs ==
    {JNull}
    \cup {JDict(entry("anthropic", a) @@ entry("ollama", o)) :
             a \in AnthropicSections, o \in OllamaSections}

LlmInit ==
    /\ mode = "llm"
    /\ target_score = 16
    /\ max_iterations = 1
    /\ tools = [gemini |-> TRUE, codex |-> TRUE]
    /\ pc = "LlmInput"
    /\ iteration = 0
    /\ gemini_result = None
    /\ codex_result = None
    /\ consensus = None
    /\ avg_score = None
    /\ consensus_issues = None
    /\ review_history = <<>>
    /\ fix_index = 0
    /\ calls = <<>>
    /\ existing_files = Files
    /\ proc_result = None
    /\ fix_log = <<>>
    /\ audit_files = {}
    /\ in_flight = <<>>
    /\ config_files \in [main : {None} \cup {Some(m) : m \in MainConfigs},
                         secrets : {None} \cup {Some(c) : c \in SecretsConfigs}]
    /\ llm_class = None
    /\ agent = None
    /\ task_type = None
    /\ sessions = None
    /\ loop_running = None
    /\ api_outcome = None
    /\ reviews = None
    /\ summary = None

SelectLlm ==
    /\ mode = "llm"
    /\ pc = "LlmInput"
    /\ llm_class' = Some(get_preferred_llm_class(config_files.secrets, config_files.main))
    /\ pc' = "LlmSelected"
    /\ UNCHANGED <<mode, target_score, max_iterations, tools, iteration, gemini_result,
                   codex_result, consensus, avg_score, consensus_issues, review_history,
                   fix_index, calls, existing_files, proc_result, fix_log, audit_files,
                   in_flight, config_files, agent, task_type, workflow_vars>>

LlmNext == SelectLlm

LlmSpec == LlmInit /\ [][LlmNext]_vars

-----------------------------------------------------------------------------
(* The phase-based model switch: _determine_task_type_from_context of
   CodeImplementationWorkflow, as test_model_switching.py calls it and
   expects it to answer.  The agent is the MockCodeAgent of the test. *)

\* largest number of implemented files and latest iteration the decision
\* is asked about
MaxFiles == 4
MaxSwitchIteration == 10

\* MockCodeAgent(files_count, in_loop)
MockCodeAgent(files_count, in_loop) == [files_count |-> files_count, in_loop |-> in_loop]

get_files_implemented_count(a) == a.files_count

is_in_analysis_loop(a) == a.in_loop

\* the decision that returns analysis throughout the first three iterations
determine_task_type_by_iteration(a, iter) ==
    IF iter <= 3 THEN "analysis"
    ELSE IF get_files_implemented_count(a) > 0 \/ is_in_analysis_loop(a)
         THEN "code_generation"
         ELSE "analysis"

\* workflow._determine_task_type_from_context(agent, iteration): the answers
\* the test asserts (cases 1 to 3) and prints as expected (case 4)
determine_task_type_from_context(a, iter) ==
    IF is_in_analysis_loop(a) THEN "code_generation"
    ELSE IF get_files_implemented_count(a) > 0 THEN "code_generation"
    ELSE "analysis"

SwitchInit ==
    /\ mode = "switch"
    /\ target_score = 16
    /\ max_iterations = 1
    /\ tools = [gemini |-> TRUE, codex |-> TRUE]
    /\ pc = "SwitchInput"
    /\ iteration \in 1..MaxSwitchIteration
    /\ gemini_result = None
    /\ codex_result = None
    /\ consensus = None
    /\ avg_score = None
    /\ consensus_issues = None
    /\ review_history = <<>>
    /\ fix_index = 0
    /\ calls = <<>>
    /\ existing_files = Files
    /\ proc_result = None
    /\ fix_log = <<>>
    /\ audit_files = {}
    /\ in_flight = <<>>
    /\ config_files = None
    /\ llm_class = None
    /\ \E n \in 0..MaxFiles, l \in BOOLEAN : agent = Some(MockCodeAgent(n, l))
    /\ task_type = None
    /\ sessions = None
    /\ loop_running = None
    /\ api_outcome = None
    /\ reviews = None
    /\ summary = None

DetermineTaskType ==
    /\ mode = "switch"
    /\ pc = "SwitchInput"
    /\ task_type' = Some(determine_task_type_from_context(agent[1], iteration))
    /\ pc' = "TaskTypeDetermined"
    /\ UNCHANGED <<mode, target_score, max_iterations, tools, iteration, gemini_result,
                   codex_result, consensus, avg_score, consensus_issues, review_history,
                   fix_index, calls, existing_files, proc_result, fix_log, audit_files,
                   in_flight, config_files, llm_class, agent, workflow_vars>>

SwitchNext == DetermineTaskType

SwitchSpec == SwitchInit /\ [][SwitchNext]_vars

-----------------------------------------------------------------------------
(* Two IterativeCodeImprover sessions side by side: the files they write.

   A path is the sequence of its components.  Each session is an object of
   its own (main builds one per process); what the sessions share is the
   file system.  audit_files maps a directory to the files in it; the
   content of a file is the stamp of the statement that wrote it: the
   session, the iteration and the write statement. *)

Sessions == {1, 2}

\* the code directories a session is started on: two under one parent, and
\* one under another
CodeDirectories ==
    {<<"papers", "1", "generate_code">>,
     <<"papers", "1", "baseline">>,
     <<"papers", "2", "generate_code">>}

\* Path.parent
parent(path) == SubSeq(path, 1, Len(path) - 1)

\* self.output_dir = self.code_directory.parent / "iterative_reviews"
output_dir(code_directory) == Append(parent(code_directory), "iterative_reviews")

\* f"iteration_{iteration}_consensus.json", f"iteration_{iteration}_consensus.md"
report_file(iter, suffix) == [iteration |-> iter, report |-> suffix]

\* "complete_history.json"
history_file == [report |-> "complete_history.json"]

\* what a write statement of a session puts into its file
stamp(s, iter, statement) == [session |-> s, iteration |-> iter, statement |-> statement]

\* what subprocess.run does in a review, as far as the raw-output writes
\* depend on it
AuditGeminiProcs == {[exc |-> "none", returncode |-> rc] : rc \in {0, 1}}
AuditCodexProcs  == {[exc |-> "none", plus |-> pl] : pl \in BOOLEAN}

\* IterativeCodeImprover(code_directory, ...): the object after __init__
\* and the availability check, at the first review
IterativeCodeImprover(code_directory) ==
    [code_directory |-> code_directory,
     output_dir     |-> output_dir(code_directory),
     iteration      |-> 1,
     pc             |-> "ReviewGemini"]

AuditInit ==
    /\ mode = "audit"
    /\ target_score = 16
    /\ max_iterations = MaxIterations
    /\ tools = [gemini |-> TRUE, codex |-> TRUE]
    /\ pc = "Sessions"
    /\ iteration = 0
    /\ gemini_result = None
    /\ codex_result = None
    /\ consensus = None
    /\ avg_score = None
    /\ consensus_issues = None
    /\ review_history = <<>>
    /\ fix_index = 0
    /\ calls = <<>>
    /\ existing_files = Files
    /\ proc_result = None
    /\ fix_log = <<>>
    /\ \E dirs \in [Sessions -> CodeDirectories] :
           /\ sessions = [s \in Sessions |-> IterativeCodeImprover(dirs[s])]
           /\ audit_files = [d \in {output_dir(dirs[s]) : s \in Sessions} |-> {}]
    /\ in_flight = <<>>
    /\ config_files = None
    /\ llm_class = None
    /\ agent = None
    /\ task_type = None
    /\ loop_running = None
    /\ api_outcome = None
    /\ reviews = None
    /\ summary = None

audit_unchanged ==
    UNCHANGED <<mode, target_score, max_iterations, tools, pc, iteration, gemini_result,
                codex_result, consensus, avg_score, consensus_issues, review_history,
                fix_index, calls, existing_files, proc_result, fix_log, in_flight,
                selection_vars, loop_running, api_outcome, reviews, summary>>

\* run_gemini_review of session s: the raw output is written on exit
\* status 0
AuditGeminiReview(s) ==
    /\ mode = "audit"
    /\ sessions[s].pc = "ReviewGemini"
    /\ \E proc \in AuditGeminiProcs :
           audit_files' =
               [audit_files EXCEPT ![sessions[s].output_dir] =
                   save_gemini_output(@, sessions[s].iteration, proc,
                                      stamp(s, sessions[s].iteration, "gemini raw"))]
    /\ sessions' = [sessions EXCEPT ![s].pc = "ReviewCodex"]
    /\ audit_unchanged

\* run_codex_review of session s: the raw output is written unless it holds
\* the subscription text
AuditCodexReview(s) ==
    /\ mode = "audit"
    /\ sessions[s].pc = "ReviewCodex"
    /\ \E proc \in AuditCodexProcs :
           audit_files' =
               [audit_files EXCEPT ![sessions[s].output_dir] =
                   save_codex_output(@, sessions[s].iteration, proc, proc.plus,
                                     stamp(s, sessions[s].iteration, "codex raw"))]
    /\ sessions' = [sessions EXCEPT ![s].pc = "Report"]
    /\ audit_unchanged

\* generate_consensus_report of session s writes the report as JSON and as
\* Markdown; then the loop of run goes on, or ends on a reached target or
\* after max_iterations
AuditConsensusReport(s) ==
    /\ mode = "audit"
    /\ sessions[s].pc = "Report"
    /\ LET iter == sessions[s].iteration
       IN  audit_files' =
               [audit_files EXCEPT ![sessions[s].output_dir] =
                   write(write(@, report_file(iter, "consensus.json"),
                               stamp(s, iter, "consensus.json")),
                         report_file(iter, "consensus.md"),
                         stamp(s, iter, "consensus.md"))]
    /\ \E reached \in BOOLEAN :
           IF reached \/ sessions[s].iteration = max_iterations
           THEN sessions' = [sessions EXCEPT ![s].pc = "FinalReport"]
           ELSE sessions' = [sessions EXCEPT ![s].pc = "ReviewGemini",
                                             ![s].iteration = @ + 1]
    /\ audit_unchanged

\* generate_final_report of session s writes the history
AuditFinalReport(s) ==
    /\ mode = "audit"
    /\ sessions[s].pc = "FinalReport"
    /\ audit_files' =
           [audit_files EXCEPT ![sessions[s].output_dir] =
               write(@, history_file, stamp(s, sessions[s].iteration, "history"))]
    /\ sessions' = [sessions EXCEPT ![s].pc = "Done"]
    /\ audit_unchanged

AuditNext ==
    \E s \in Sessions :
        \/ AuditGeminiReview(s)
        \/ AuditCodexReview(s)
        \/ AuditConsensusReport(s)
        \/ AuditFinalReport(s)

AuditSpec == AuditInit /\ [][AuditNext]_vars

-----------------------------------------------------------------------------
(* main of cross_review.py: the Gemini step with its fallback, the Codex
   step and the summary.

   A review function returns the pair (success, report path); the path is
   an Option here, None for Python's None.  audit_files is the set of the
   file names in the code_reviews directory. *)

ReviewPair(success, report) == [success |-> success, report |-> report]

\* the result of subprocess.run(["gemini", "-p", ...], timeout=300)
CliProcs ==
    {[exc |-> e] : e \in {"Timeout", "Error"}}
    \cup {[exc |-> "none", returncode |-> rc] : rc \in {0, 1}}

\* what the coroutine run_gemini_review does once it is run: the workflow
\* returns status success or error, or raises ValueError (no API key) or
\* another exception
ApiOutcomes == {"success", "error", "ValueError", "Exception"}

\* run_gemini_review (the Gemini API review): the pair returned
run_gemini_api_review(outcome) ==
    IF outcome = "success" THEN ReviewPair(TRUE, Some("gemini_review.md"))
    ELSE ReviewPair(FALSE, None)

\* run_gemini_api_fallback: loop.run_until_complete on the loop
\* asyncio.get_event_loop() returns.  Inside a running loop that is the
\* running loop, run_until_complete raises RuntimeError ("This event loop
\* is already running") before the coroutine runs a step, and the bare
\* except returns (False, None).
run_gemini_api_fallback(running, outcome) ==
    IF running THEN ReviewPair(FALSE, None)
    ELSE run_gemini_api_review(outcome)

\* run_gemini_cli_review: the pair returned
run_gemini_cli_review(installed, proc, running, outcome) ==
    IF ~installed THEN run_gemini_api_fallback(running, outcome)
    ELSE IF proc.exc = "none" /\ proc.returncode = 0
         THEN ReviewPair(TRUE, Some("gemini_cli_review.md"))
         ELSE run_gemini_api_fallback(running, outcome)

\* the files the Gemini step leaves in the code_reviews directory
gemini_step_files(files, pair) ==
    IF pair.success THEN files \cup {pair.report[1]} ELSE files

\* run_codex_review: without the CLI (False, None); with it the prompt file
\* is written and, once Enter is pressed, the review counts if its file is
\* there
cross_run_codex_review(installed, files) ==
    IF ~installed THEN ReviewPair(FALSE, None)
    ELSE IF "codex_review.md" \in files
         THEN ReviewPair(TRUE, Some("codex_review.md"))
         ELSE ReviewPair(FALSE, None)

\* the arguments main hands to generate_cross_review_summary
summary_args(g, c) ==
    [gemini_report |-> IF g.success THEN g.report ELSE None,
     codex_report  |-> IF c.success THEN c.report ELSE None]

\* main after its argument checks.  The script runs main under
\* asyncio.run (loop_running); a program that imports the module can call
\* the review functions outside a loop.
CrossInit ==
    /\ mode = "cross"
    /\ target_score = 16
    /\ max_iterations = 1
    /\ tools \in [gemini : BOOLEAN, codex : BOOLEAN]
    /\ pc = "GeminiStep"
    /\ iteration = 0
    /\ gemini_result = None
    /\ codex_result = None
    /\ consensus = None
    /\ avg_score = None
    /\ consensus_issues = None
    /\ review_history = <<>>
    /\ fix_index = 0
    /\ calls = <<>>
    /\ existing_files = Files
    /\ \E proc \in CliProcs : proc_result = Some(proc)
    /\ fix_log = <<>>
    /\ audit_files = {}
    /\ in_flight = <<>>
    /\ config_files = None
    /\ llm_class = None
    /\ agent = None
    /\ task_type = None
    /\ sessions = None
    /\ loop_running \in BOOLEAN
    /\ api_outcome \in ApiOutcomes
    /\ reviews = None
    /\ summary = None

\* main: STEP 1, run_gemini_cli_review
CrossGeminiStep ==
    /\ mode = "cross"
    /\ pc = "GeminiStep"
    /\ LET pair == run_gemini_cli_review(tools.gemini, proc_result[1], loop_running,
                                         api_outcome)
       IN  /\ gemini_result' = Some(pair)
           /\ audit_files' = gemini_step_files(audit_files, pair)
    /\ pc' = "CodexStep"
    /\ UNCHANGED <<mode, target_score, max_iterations, tools, iteration, codex_result,
                   consensus, avg_score, consensus_issues, review_history, fix_index,
                   calls, existing_files, proc_result, fix_log, in_flight, selection_vars,
                   sessions, loop_running, api_outcome, reviews, summary>>

\* main: STEP 2, run_codex_review; while it waits for Enter the user saves
\* the Codex review to codex_review.md, or does not
CrossCodexStep ==
    /\ mode = "cross"
    /\ pc = "CodexStep"
    /\ \E saved \in BOOLEAN :
           LET files == IF tools.codex
                        THEN audit_files \cup {"codex_review_prompt.txt"}
                                 \cup (IF saved THEN {"codex_review.md"} ELSE {})
                        ELSE audit_files
           IN  /\ audit_files' = files
               /\ codex_result' = Some(cross_run_codex_review(tools.codex, files))
    /\ pc' = "SummaryStep"
    /\ UNCHANGED <<mode, target_score, max_iterations, tools, iteration, gemini_result,
                   consensus, avg_score, consensus_issues, review_history, fix_index,
                   calls, existing_files, proc_result, fix_log, in_flight, selection_vars,
                   sessions, loop_running, api_outcome, reviews, summary>>

\* main: STEP 3, generate_cross_review_summary, and the final report
CrossSummaryStep ==
    /\ mode = "cross"
    /\ pc = "SummaryStep"
    /\ summary' = Some(summary_args(gemini_result[1], codex_result[1]))
    /\ audit_files' = audit_files \cup {"CROSS_REVIEW_SUMMARY.md"}
    /\ pc' = "Complete"
    /\ UNCHANGED <<mode, target_score, max_iterations, tools, iteration, gemini_result,
                   codex_result, consensus, avg_score, consensus_issues, review_history,
                   fix_index, calls, existing_files, proc_result, fix_log, in_flight,
                   selection_vars, sessions, loop_running, api_outcome, reviews>>

CrossNext == CrossGeminiStep \/ CrossCodexStep \/ CrossSummaryStep

CrossSpec == CrossInit /\ [][CrossNext]_vars

-----------------------------------------------------------------------------
(* _aggregate_reviews (workflows/code_review_workflow_gemini.py).

   A review is what review_code_file returns: status success with the
   reviewer's text, or status error.  The text is a sequence of tokens as
   above, the values under its keys tagged with their type.  Scores are in
   half points; average_score is in hundredths of a point. *)

\* most files a directory under review holds
MaxReviews == 3

\* round(num / den, 2) in hundredths with the downward cut
round_2_truncating(num, den) == (100 * num) \div den

\* round(num / den, 2) in hundredths: to the nearest hundredth, a tie to the
\* even one.  The means of up to four half-point scores that are a tie
\* (eighths) are floats without error, so the tie rule is the one applied.
round_2(num, den) ==
    LET q == (100 * num) \div den
        r == (100 * num) % den
    IN  IF 2 * r < den THEN q
        ELSE IF 2 * r > den THEN q + 1
        ELSE IF q % 2 = 0 THEN q ELSE q + 1

FileReview(text) == [status |-> "success", review |-> text]
FailedReview == [status |-> "error"]

\* json.dumps of an issue and of the review object the prompt asks for
review_issue(sev) ==
    <<LB, Member("description", JStr("unused import")), Member("severity", JStr(sev)), RB>>

review_object(score, sevs) ==
    <<LB, Member("overall_score", score), Key("issues"), LS>>
    \o flatten([n \in 1..Len(sevs) |-> review_issue(sevs[n])])
    \o <<RS, RB>>

\* the reviews of one file: failed; an object in a fenced block between
\* narrative text; a bare object without issues; an object with a severity
\* in capitals; an object without a score; narrative text only; narrative
\* text in braces; an object cut short behind a narrative with a closing
\* brace; an object whose score is a string
ReviewPool ==
    {FailedReview,
     FileReview(<<Word, FenceJson>> \o review_object(JNum(14), <<"critical", "high">>)
                \o <<Fence, Word>>),
     FileReview(<<LB, Member("overall_score", JNum(15)), RB>>),
     FileReview(review_object(JNum(16), <<"medium", "low", "HIGH">>)),
     FileReview(<<LB, Key("issues"), LS>> \o review_issue("high") \o <<RS, RB>>),
     FileReview(<<Word>>),
     FileReview(<<Word, LB, Word, RB, Word>>),
     FileReview(<<Word, RB, LB, Member("overall_score", JNum(14))>>),
     FileReview(<<LB, Member("overall_score", JStr("high")), RB>>)}

ReviewLists == UNION {[1..n -> ReviewPool] : n \in 0..MaxReviews}

\* review_content[json_start:json_end] decoded, where there is such a
\* slice: from the first opening brace to the last closing brace
review_data(review_content) ==
    LET json_start == find(review_content, LB)
        json_end   == rfind(review_content, RB)
    IN  IF json_start # 0 /\ json_end >= json_start
        THEN json_loads(SubSeq(review_content, json_start, json_end))
        ELSE JsonError

\* the body of the loop over successful_reviews: all_scores and all_issues
\* after the review; a text that does not decode is logged and adds nothing
RECURSIVE parse_reviews(_, _, _)
parse_reviews(successful_reviews, all_scores, all_issues) ==
    IF successful_reviews = <<>>
    THEN [all_scores |-> all_scores, all_issues |-> all_issues]
    ELSE LET v == review_data(Head(successful_reviews).review)
         IN  parse_reviews(Tail(successful_reviews),
                 IF v.ok /\ "overall_score" \in DOMAIN v.val
                 THEN Append(all_scores, v.val.overall_score) ELSE all_scores,
                 IF v.ok /\ "issues" \in DOMAIN v.val
                 THEN all_issues \o v.val.issues ELSE all_issues)

\* len([i for i in all_issues if i.get("severity") == sev])
severity_count(all_issues, sev) ==
    Cardinality({k \in 1..Len(all_issues) :
                    py_eq(get(all_issues[k], "severity", JNull), JStr(sev))})

\* _aggregate_reviews: the summary of the dict returned; sum(all_scores)
\* raises TypeError on a score that is no number
aggregate_reviews(review_list) ==
    LET successful_reviews == SelectSeq(review_list, LAMBDA r : r.status = "success")
        failed_reviews     == SelectSeq(review_list, LAMBDA r : r.status = "error")
        parsed     == parse_reviews(successful_reviews, <<>>, <<>>)
        all_scores == parsed.all_scores
        all_issues == parsed.all_issues
    IN  IF \E k \in 1..Len(all_scores) : ~is_number(all_scores[k])
        THEN Raises("TypeError")
        ELSE Returns(
            [total_files           |-> Len(review_list),
             reviewed_successfully |-> Len(successful_reviews),
             review_failed         |-> Len(failed_reviews),
             average_score  |-> IF all_scores # <<>>
                                THEN round_2(sum([k \in 1..Len(all_scores) |-> all_scores[k].v]),
                                             2 * Len(all_scores))
                                ELSE 0,
             total_issues    |-> Len(all_issues),
             critical_issues |-> severity_count(all_issues, "critical"),
             high_issues     |-> severity_count(all_issues, "high"),
             medium_issues   |-> severity_count(all_issues, "medium"),
             low_issues      |-> severity_count(all_issues, "low")])

\* review_directory has reviewed the files one after the other
AggregateInit ==
    /\ mode = "aggregate"
    /\ target_score = 16
    /\ max_iterations = 1
    /\ tools = [gemini |-> TRUE, codex |-> FALSE]
    /\ pc = "Reviewed"
    /\ iteration = 0
    /\ gemini_result = None
    /\ codex_result = None
    /\ consensus = None
    /\ avg_score = None
    /\ consensus_issues = None
    /\ review_history = <<>>
    /\ fix_index = 0
    /\ calls = <<>>
    /\ existing_files = Files
    /\ proc_result = None
    /\ fix_log = <<>>
    /\ audit_files = {}
    /\ in_flight = <<>>
    /\ config_files = None
    /\ llm_class = None
    /\ agent = None
    /\ task_type = None
    /\ sessions = None
    /\ loop_running = None
    /\ api_outcome = None
    /\ \E l \in ReviewLists : reviews = Some(l)
    /\ summary = None

\* review_directory: return self._aggregate_reviews(reviews, directory_path)
AggregateReviews ==
    /\ mode = "aggregate"
    /\ pc = "Reviewed"
    /\ LET r == aggregate_reviews(reviews[1])
       IN  IF r.raised # "none"
           THEN pc' = "Raised" /\ UNCHANGED summary
           ELSE pc' = "Aggregated" /\ summary' = Some(r.val)
    /\ UNCHANGED <<mode, target_score, max_iterations, tools, iteration, gemini_result,
                   codex_result, consensus, avg_score, consensus_issues, review_history,
                   fix_index, calls, existing_files, proc_result, fix_log, audit_files,
                   in_flight, selection_vars, sessions, loop_running, api_outcome,
                   reviews>>

AggregateNext == AggregateReviews

AggregateSpec == AggregateInit /\ [][AggregateNext]_vars

-----------------------------------------------------------------------------
(* Notions the properties below share *)

\* the decision of the current iteration has been taken and the controller
\* is still in that iteration
Decided == pc \in {"Converged", "Exhausted", "Repairing", "Sleeping"}

\* the session has stopped: the controller is at none of the positions an
\* action starts from
Stopped ==
    pc \notin {"Idle", "ReviewGemini", "ReviewCodex", "Deciding", "Repairing", "Sleeping"}

\* the average score of the current iteration, once Decided
CurrentAverage == IF mode = "iterative" THEN consensus[1].average_score ELSE avg_score[1]

\* the review outcomes of the current iteration that count as succeeded
SucceededResults ==
    SelectSeq(<<gemini_result, codex_result>>,
              LAMBDA r : r.status = "success" \/ r.status = "partial")

RepairsIn(iter) == {k \in 1..Len(calls) : calls[k].op = "repair" /\ calls[k].iteration = iter}

-----------------------------------------------------------------------------
(* C1 *)

C1_State ==
    Decided =>
        /\ pc = "Converged" <=> CurrentAverage >= target_score
        /\ pc = "Converged" => RepairsIn(iteration) = {}

-----------------------------------------------------------------------------
(* C2 *)

\* C2: when the target is not reached, iteration max_iterations ends in
\* Exhausted whatever consensus issues remain: no repair call is issued in
\* the final iteration and no iteration beyond max_iterations is started.
C2_FinalIterationEndsExhausted ==
    /\ iteration <= max_iterations
    /\ RepairsIn(max_iterations) = {}
    /\ (Decided /\ iteration = max_iterations /\ CurrentAverage < target_score)
           => pc = "Exhausted"

-----------------------------------------------------------------------------
(* C3 *)

\* C3: a session stops only as Converged (average >= target), Exhausted
\* (iteration max_iterations without convergence) or Aborted (no provider,
\* before any iteration), after at most max_iterations iterations.
C3_StopsInDefinedTerminalState ==
    Stopped =>
        /\ iteration <= max_iterations
        /\ \/ pc = "Converged" /\ CurrentAverage >= target_score
           \/ pc = "Exhausted" /\ iteration = max_iterations
                               /\ CurrentAverage < target_score
           \/ pc = "Aborted" /\ iteration = 0 /\ ~tools.gemini /\ ~tools.codex

-----------------------------------------------------------------------------
(* C4 *)

\* C4: with no provider available the session aborts before any iteration
\* (no iteration started, no call issued, no record appended); with a
\* provider available it enters iteration 1.
C4_NoProviderAbortsBeforeIteration ==
    pc # "Idle" =>
        IF ~tools.gemini /\ ~tools.codex
        THEN pc = "Aborted" /\ iteration = 0 /\ calls = <<>> /\ review_history = <<>>
        ELSE pc # "Aborted" /\ iteration >= 1

-----------------------------------------------------------------------------
(* C5 *)

\* C5: the average score of an iteration is the arithmetic mean of the
\* overall scores of exactly the providers whose outcome is success or
\* partial; failed and skipped providers contribute nothing.
C5_AverageIsMeanOfSucceeded ==
    Decided =>
        LET S == SucceededResults
        IN  /\ S # <<>> =>
                   CurrentAverage * Len(S) = sum([k \in 1..Len(S) |-> S[k].data.overall_score])
            /\ S = <<>> => CurrentAverage = 0
            /\ mode = "iterative" =>
                   /\ review_history[Len(review_history)].average_score = CurrentAverage
                   /\ DOMAIN consensus[1].scores = {S[k].tool : k \in 1..Len(S)}

\* Gemini succeeds with 9.0, Codex fails: the average is 9.0, not 4.5
C5_Witness ==
    /\ Decided
    /\ gemini_result.status = "success"
    /\ gemini_result.data.overall_score = 18
    /\ codex_result.status = "failed"
    /\ CurrentAverage = 18

-----------------------------------------------------------------------------
(* C6 *)

\* C6: an iteration in which no provider succeeded records the average 0,
\* and the controller never declares the target reached on such an
\* iteration, whatever the target score in 0..10.
C6_NoConvergenceWithoutSuccess ==
    Decided =>
        /\ (mode = "iterative" /\ SucceededResults = <<>>) => CurrentAverage = 0
        /\ pc = "Converged" => SucceededResults # <<>>

-----------------------------------------------------------------------------
(* The matcher inputs and outputs in MatchSpec *)

GeminiTopIssues == gemini_result.data.top_issues
CodexTopIssues  == codex_result.data.top_issues

\* same file, and lines at most five apart
Near(g, c) == g.file = c.file /\ (g.line - c.line) \in -5..5

Distinct(s) == \A a, b \in 1..Len(s) : a # b => s[a] # s[b]

-----------------------------------------------------------------------------
(* C7 *)

\* C7: find_consensus_issues pairs a Gemini issue with a Codex issue only
\* if they name the same file and their lines are at most 5 apart
\* (inclusive); every Gemini issue that has such a Codex issue yields one
\* entry, in list order, paired with the first such Codex issue.
C7_LocalityMatch ==
    pc = "LocalityDone" =>
        LET E == consensus_issues[1]
            G == GeminiTopIssues
            C == CodexTopIssues
            I == {i \in 1..Len(G) : \E j \in 1..Len(C) : Near(G[i], C[j])}
        IN  /\ Len(E) = Cardinality(I)
            /\ \A k \in 1..Len(E) :
                   LET i == CHOOSE i \in I : Cardinality({m \in I : m <= i}) = k
                       j == CHOOSE j \in 1..Len(C) :
                                /\ Near(G[i], C[j])
                                /\ \A m \in 1..(j - 1) : ~Near(G[i], C[m])
                   IN  /\ E[k].gemini_issue = G[i]
                       /\ E[k].codex_issue = C[j]
                       /\ E[k].file = G[i].file
                       /\ E[k].line = G[i].line
                       /\ Near(E[k].gemini_issue, E[k].codex_issue)

\* x.py:10 passes over x.py:16 (6 apart) and pairs with x.py:15 (5 apart);
\* model.py:10 pairs with neither, though 5 lines from x.py:15
C7_Witness ==
    /\ pc = "LocalityDone"
    /\ GeminiTopIssues = <<P1, P4>>
    /\ CodexTopIssues = <<P3, P2>>
    /\ Len(consensus_issues[1]) = 1
    /\ consensus_issues[1][1].gemini_issue = P1
    /\ consensus_issues[1][1].codex_issue = P2

-----------------------------------------------------------------------------
(* C8 *)

\* C8: in the output of find_consensus_issues every Gemini-side issue and
\* every Codex-side issue appears in at most one consensus entry.
C8_NoIssueMatchedTwice ==
    (pc = "LocalityDone" /\ Distinct(GeminiTopIssues) /\ Distinct(CodexTopIssues)) =>
        LET E == consensus_issues[1]
        IN  \A k, l \in 1..Len(E) :
                k # l => /\ E[k].gemini_issue # E[l].gemini_issue
                         /\ E[k].codex_issue # E[l].codex_issue

-----------------------------------------------------------------------------
(* C9 *)

\* some vocabulary keyword is a substring of both lower-cased descriptions
SharedTerm(g, c) ==
    \E k \in 1..Len(common_keywords) :
        /\ contains(Chars(common_keywords[k]), lower(Chars(g.issue)))
        /\ contains(Chars(common_keywords[k]), lower(Chars(c.issue)))

\* C9: in generate_consensus_report a Gemini issue and a Codex issue form a
\* consensus entry iff some vocabulary keyword is a substring of both
\* issues' lower-cased descriptions.
C9_KeywordMatchOnDescriptions ==
    pc = "KeywordDone" =>
        LET E == consensus[1].consensus_issues
            G == gemini_result.data.critical_issues
            C == codex_result.data.critical_issues
        IN  /\ \A k \in 1..Len(E) : SharedTerm(E[k].gemini_finding, E[k].codex_finding)
            /\ \A i \in 1..Len(G), j \in 1..Len(C) :
                   SharedTerm(G[i], C[j]) =>
                       \E k \in 1..Len(E) : /\ E[k].gemini_finding = G[i]
                                            /\ E[k].codex_finding = C[j]

-----------------------------------------------------------------------------
(* C10 *)

\* C10: in an iteration in which fewer than two providers succeeded the
\* consensus set is empty and no repair is attempted.
C10_NoConsensusBelowTwoSuccesses ==
    ((Decided \/ pc = "NoSuccessfulReviews") /\ Len(SucceededResults) < 2) =>
        /\ pc # "Repairing"
        /\ RepairsIn(iteration) = {}
        /\ mode = "iterative" =>
               /\ consensus[1].consensus_issues = <<>>
               /\ review_history[Len(review_history)].consensus_issues = <<>>

\* the second iteration has one failed review, after a first iteration
\* that found consensus issues and repaired them
C10_Witness ==
    /\ Decided
    /\ iteration = 2
    /\ Len(SucceededResults) = 1
    /\ RepairsIn(1) # {}
    /\ RepairsIn(2) = {}

-----------------------------------------------------------------------------
(* Notions of the repair loop and of the review calls *)

RepairCalls(iter) == SelectSeq(calls, LAMBDA c : c.op = "repair" /\ c.iteration = iter)

FilesOf(s) == [k \in 1..Len(s) |-> s[k].file]

\* the consensus issues of the current iteration
Batch == IF mode = "iterative" THEN consensus[1].consensus_issues ELSE consensus_issues[1]

\* the repair loop of the current iteration has run to its end
BatchDone == pc \in {"Sleeping", "Exhausted"} /\ fix_log # <<>>

\* the consensus issues the repair loop has gone through so far, the one
\* whose repair call is in flight included
Handled ==
    IF pc = "Repairing"
    THEN SubSeq(Batch, 1, IF in_flight = <<>> THEN fix_index - 1 ELSE fix_index)
    ELSE IF BatchDone THEN Batch
    ELSE <<>>

\* the Codex review of the current iteration is over (or was left out)
AfterCodex == pc = "Deciding" \/ Decided \/ pc = "NoSuccessfulReviews"

\* the review call that returned last ran out of time
TimedOut == proc_result = Some([exc |-> "Timeout"])

\* the review call that returned last printed the subscription text
PlusOutput ==
    /\ proc_result # None
    /\ proc_result[1].exc = "none"
    /\ proc_result[1].plus

\* the review call that returned last ended with a nonzero exit status
NonzeroExit ==
    /\ proc_result # None
    /\ proc_result[1].exc = "none"
    /\ proc_result[1].returncode # 0

\* the current iteration has no consensus issue and repairs nothing
NoConsensus ==
    /\ pc # "Repairing"
    /\ RepairsIn(iteration) = {}
    /\ mode = "iterative" => consensus[1].consensus_issues = <<>>

\* the average of the current iteration counts the Gemini review alone
AverageOfGeminiAlone ==
    CurrentAverage = IF succeeded(gemini_result) THEN gemini_result.data.overall_score ELSE 0

\* the average of the current iteration counts the Codex review alone
AverageOfCodexAlone ==
    CurrentAverage = IF succeeded(codex_result) THEN codex_result.data.overall_score ELSE 0

-----------------------------------------------------------------------------
(* The review functions in ParseSpec *)

\* the review function that was applied has returned
Parsed == mode = "parse" /\ pc # "ParseInput"

\* the result it returned
Result == IF pc \in {"IterGeminiDone", "QuickGeminiDone"} THEN gemini_result
                                                          ELSE codex_result

\* the key under which the script that was applied looks for the issue list
ScriptKey == IF pc \in {"IterGeminiDone", "IterCodexDone"} THEN "critical_issues"
                                                           ELSE "top_issues"

\* the call returned with exit status 0 and no subscription text
CleanExit ==
    /\ proc_result[1].exc = "none"
    /\ proc_result[1].returncode = 0
    /\ proc_result[1].stderr # <<PlusText>>

\* the output is a review object, bare or fenced, with or without narrative
WellFormed == \E p \in TextPayloads : proc_result[1].stdout \in Wrappings(p)

\* the review object in a well-formed output
Embedded == CHOOSE p \in TextPayloads : proc_result[1].stdout \in Wrappings(p)

-----------------------------------------------------------------------------
(* C11 *)

\* C11: on an output that holds a well-formed review object (bare, in a
\* fenced block, with or without narrative text around it) each of the four
\* review functions returns success with the overall score of the object
\* and as many issues as the object lists.
C11_ExtractionRecoversPayload ==
    (Parsed /\ CleanExit /\ WellFormed /\ Embedded.key = ScriptKey) =>
        /\ Result.status = "success"
        /\ Result.data.overall_score = Embedded.score
        /\ Len(Result.data[ScriptKey]) = Len(Embedded.issues)

-----------------------------------------------------------------------------
(* C12 *)

\* C12: on an output that holds no well-formed review object each review
\* function returns, without raising, the outcome partial with an overall
\* score between 0 and 10.
C12_MalformedOutputIsPartial ==
    (Parsed /\ CleanExit /\ proc_result[1].stdout \in OtherTexts) =>
        /\ Result.status = "partial"
        /\ Result.data.overall_score \in 0..20

-----------------------------------------------------------------------------
(* C13 *)

\* C13: in a repairing iteration of main (quick_cross_review_and_fix.py) the
\* repair calls are, in order, one per consensus issue whose file exists,
\* each for the file of its issue, and there is no other repair call; the
\* consensus issues are those find_consensus_issues yields on the two
\* reviews of the iteration.
C13_OneRepairPerConsensusIssue ==
    mode = "quick" =>
        /\ FilesOf(RepairCalls(iteration))
               = FilesOf(SelectSeq(Handled, LAMBDA e : e.file \in existing_files))
        /\ (pc = "Repairing" \/ BatchDone) =>
               /\ Batch = find_consensus_issues(gemini_result.data, codex_result.data)
               /\ Batch # <<>>

\* each reviewer reports one issue in the existing file x.py, at lines 10
\* and 15: one consensus entry, one repair call, for x.py
C13_Witness ==
    /\ mode = "quick"
    /\ BatchDone
    /\ "x.py" \in existing_files
    /\ gemini_result.data.top_issues = <<P1>>
    /\ codex_result.data.top_issues = <<P2>>
    /\ Len(Batch) = 1
    /\ RepairCalls(iteration) = <<Repair(iteration, "x.py")>>

-----------------------------------------------------------------------------
(* C14 *)

\* C14: IterativeCodeImprover appends one record to review_history in every
\* iteration, at the decision step and whatever the decision; the history
\* only grows at its end: after k iterations it holds k records whose
\* iteration fields are 1..k in order, and no step changes or removes an
\* earlier record.
C14_HistoryAppendOnly ==
    /\ [](mode = "iterative" =>
            /\ Len(review_history) =
                   IF pc \in {"ReviewGemini", "ReviewCodex", "Deciding"}
                   THEN iteration - 1 ELSE iteration
            /\ \A k \in 1..Len(review_history) : review_history[k].iteration = k)
    /\ [][mode = "iterative" =>
            \/ review_history' = review_history
            \/ /\ pc = "Deciding"
               /\ Len(review_history') = Len(review_history) + 1
               /\ SubSeq(review_history', 1, Len(review_history)) = review_history
               /\ review_history'[Len(review_history')] = consensus'[1]]_vars

\* the second iteration reaches the target: its record is in the history too
C14_Witness ==
    /\ mode = "iterative"
    /\ pc = "Converged"
    /\ iteration = 2
    /\ Len(review_history) = 2

-----------------------------------------------------------------------------
(* C15 *)

\* C15: in a repair batch of either controller every pass of the loop makes
\* its attempt (it starts the repair call and then takes its outcome, or
\* finds the file missing) and goes on to the next consensus issue, whatever
\* the outcome of the attempt (subscription text, timeout, exception); after
\* the last issue the controller sleeps and starts the next iteration.
C15_BatchSurvivesFailure ==
    /\ [](pc = "Repairing" => Len(fix_log) = fix_index - 1)
    /\ [][pc = "Repairing" =>
            \/ /\ in_flight = <<>> /\ in_flight' # <<>>
               /\ UNCHANGED <<pc, fix_index, fix_log>>
            \/ /\ in_flight' = <<>>
               /\ Len(fix_log') = Len(fix_log) + 1
               /\ IF fix_index < Len(Batch)
                  THEN pc' = "Repairing" /\ fix_index' = fix_index + 1
                  ELSE pc' = "Sleeping"]_vars
    /\ [][pc = "Sleeping" => (pc' = "ReviewGemini" /\ iteration' = iteration + 1)]_vars

-----------------------------------------------------------------------------
(* C16 *)

\* C16: a pass of the fix loop of main on a consensus issue whose file is
\* not under the code directory calls no provider, counts no applied fix,
\* and the loop goes on with the next consensus issue.
C16_MissingFileIsSkipped ==
    [][(mode = "quick" /\ pc = "Repairing" /\ Batch[fix_index].file \notin existing_files) =>
          /\ calls' = calls
          /\ fix_log' = Append(fix_log, [index |-> fix_index, called |-> FALSE,
                                         applied |-> FALSE, says |-> "File not found",
                                         output |-> ""])
          /\ IF fix_index < Len(Batch)
             THEN pc' = "Repairing" /\ fix_index' = fix_index + 1
             ELSE pc' \in {"Sleeping", "Exhausted"}]_vars

\* the first of two consensus issues was skipped, the loop is at the second
C16_Witness ==
    /\ mode = "quick"
    /\ pc = "Repairing"
    /\ fix_index = 2
    /\ ~fix_log[1].called
    /\ calls[Len(calls)].op = "review"

-----------------------------------------------------------------------------
(* C17 *)

\* C17: a review call that runs out of time gives its provider the outcome
\* failed (error "Timeout" in IterativeCodeImprover) and the controller goes
\* on; every available provider is called in the iteration whatever the
\* other one did, and a succeeded review is counted in the average when the
\* other review failed.
C17_TimeoutFailsOnlyItsProvider ==
    /\ (pc = "ReviewCodex" /\ TimedOut) =>
           /\ gemini_result.status = "failed"
           /\ mode = "iterative" => gemini_result.error = "Timeout"
    /\ (AfterCodex /\ TimedOut) =>
           /\ codex_result.status = "failed"
           /\ mode = "iterative" => codex_result.error = "Timeout"
           /\ (Decided /\ succeeded(gemini_result)) =>
                  CurrentAverage = gemini_result.data.overall_score
    /\ AfterCodex =>
           \A t \in {"gemini", "codex"} :
               tools[t] => \E k \in 1..Len(calls) : calls[k] = Review(t, iteration)
    /\ (Decided /\ gemini_result.status = "failed" /\ succeeded(codex_result)) =>
           CurrentAverage = codex_result.data.overall_score

\* Gemini times out, Codex is still called and its 9.0 is the average
C17_Witness ==
    /\ mode = "iterative"
    /\ Decided
    /\ gemini_result = [status |-> "failed", tool |-> "gemini", error |-> "Timeout"]
    /\ codex_result.status = "success"
    /\ calls[Len(calls)] = Review("codex", iteration)
    /\ CurrentAverage = 18

-----------------------------------------------------------------------------
(* C18 *)

-----------------------------------------------------------------------------
(* C19 *)

\* C19: a review call of either provider, in either script, that ends with
\* a nonzero exit status has the outcome failed; it is not counted in the
\* average and yields no consensus issue.
C19_NonzeroExitIsFailed ==
    /\ (pc = "ReviewCodex" /\ NonzeroExit) => gemini_result.status = "failed"
    /\ (AfterCodex /\ NonzeroExit) =>
           /\ codex_result.status = "failed"
           /\ Decided => (AverageOfGeminiAlone /\ NoConsensus)

-----------------------------------------------------------------------------
(* C20 *)

\* C20: a provider the availability check did not find is never called, for
\* a review or for a repair; its outcome in every iteration is skipped, it
\* is not counted in the average and the iteration has no consensus issue.
C20_UnavailableProviderNeverInvoked ==
    /\ \A k \in 1..Len(calls) : tools[calls[k].tool]
    /\ (~tools.gemini /\ (pc = "ReviewCodex" \/ AfterCodex)) =>
           /\ gemini_result.status = "skipped"
           /\ Decided => (AverageOfCodexAlone /\ NoConsensus)
    /\ (~tools.codex /\ AfterCodex) =>
           /\ codex_result.status = "skipped"
           /\ Decided => (AverageOfGeminiAlone /\ NoConsensus)
    /\ (Decided /\ mode = "iterative") =>
           \A t \in DOMAIN consensus[1].scores : tools[t]

\* Codex is not installed: two iterations with Gemini calls only
C20_Witness ==
    /\ Decided
    /\ iteration = 2
    /\ tools.gemini /\ ~tools.codex
    /\ codex_result.status = "skipped"
    /\ Len(calls) = 2
    /\ gemini_result.status = "success"
    /\ CurrentAverage = gemini_result.data.overall_score

-----------------------------------------------------------------------------
(* C21 *)

\* a review function of iterative_code_improvement.py was applied to a call
\* that returned: the file it is to write and the output of the call
Returned ==
    /\ Parsed
    /\ pc \in {"IterGeminiDone", "IterCodexDone"}
    /\ proc_result[1].exc = "none"

RawFile == raw_file(iteration, IF pc = "IterGeminiDone" THEN "gemini" ELSE "codex")

RawOutput == IF pc = "IterGeminiDone"
             THEN proc_result[1].stdout
             ELSE proc_result[1].stdout \o proc_result[1].stderr

\* C21: once a review call of IterativeCodeImprover has returned an output,
\* the file iteration_<i>_<provider>_raw.txt holds that output unchanged,
\* whatever the decoding of the output gives.
C21_RawOutputIsAudited ==
    Returned => [name |-> RawFile, content |-> RawOutput] \in audit_files

-----------------------------------------------------------------------------
(* C22 *)

\* a step in which a review call starts
ReviewStarts ==
    /\ Len(calls') = Len(calls) + 1
    /\ calls'[Len(calls')].op = "review"

\* at most one repair process runs, it is the call issued last and belongs
\* to the current iteration; the calls are issued in the order of the
\* iterations
Serialized ==
    /\ Len(in_flight) <= 1
    /\ \A n \in 1..Len(in_flight) :
           /\ in_flight[n].op = "repair"
           /\ in_flight[n].iteration = iteration
           /\ in_flight[n] = calls[Len(calls)]
    /\ \A j, k \in 1..Len(calls) : j < k => calls[j].iteration <= calls[k].iteration

\* C22: in both controllers at most one repair call is in flight at any
\* time, and no review call starts while a repair call is in flight: every
\* repair call of iteration N has returned or timed out before the first
\* review call of iteration N+1, and the calls of iteration N all come before
\* those of iteration N+1.
C22_RepairsLandBeforeNextReview ==
    []Serialized /\ [][ReviewStarts => in_flight = <<>>]_vars

\* two repair calls in iteration 1, the second one timed out, and then the
\* first review call of iteration 2
C22_Witness ==
    /\ Len(calls) >= 4
    /\ LET n == Len(calls)
       IN  /\ calls[n].op = "review" /\ calls[n].iteration = 2
           /\ calls[n - 1].op = "repair" /\ calls[n - 1].iteration = 1
           /\ calls[n - 2].op = "repair" /\ calls[n - 2].iteration = 1
    /\ in_flight = <<>>

-----------------------------------------------------------------------------
(* C23 *)

\* C23: on payloads that decoded (an overall_score that is missing, a
\* string or null; issues with null or without a key under file or line)
\* aggregation, consensus matching and repair of both controllers complete:
\* no statement of them raises an exception that nothing catches.
C23_NoUncaughtFault ==
    mode = "fault" => pc # "Raised"

-----------------------------------------------------------------------------
(* C24 *)

\* the class the main config names, "" when there is no such file or it
\* names none of the three providers
NamedClass ==
    LET main == config_files.main
    IN  IF main = None THEN ""
        ELSE IF main[1] = JDict(entry("default_llm_provider", Some(JStr("ollama"))))
             THEN "OllamaAugmentedLLM"
        ELSE IF main[1] = JDict(entry("default_llm_provider", Some(JStr("Anthropic"))))
             THEN "AnthropicAugmentedLLM"
        ELSE IF main[1] = JDict(entry("default_llm_provider", Some(JStr("OPENAI"))))
             THEN "OpenAIAugmentedLLM"
             ELSE ""

\* the secrets file has an anthropic section with a non-blank api_key
HasAnthropicKey ==
    /\ config_files.secrets # None
    /\ config_files.secrets[1] # JNull
    /\ "anthropic" \in DOMAIN config_files.secrets[1].v
    /\ config_files.secrets[1].v["anthropic"] = JDict(entry("api_key", Some(JStr("sk-ant-1"))))

\* the secrets file has a non-empty ollama section
HasOllamaSection ==
    /\ config_files.secrets # None
    /\ config_files.secrets[1] # JNull
    /\ "ollama" \in DOMAIN config_files.secrets[1].v
    /\ config_files.secrets[1].v["ollama"] = JDict(entry("base_url", Some(JStr("localhost"))))

\* C24: get_preferred_llm_class returns the class the main config names
\* (ollama, anthropic, openai, in any case); otherwise Anthropic when the
\* secrets file has a non-blank anthropic api_key; otherwise Ollama when the
\* secrets file has a non-empty ollama section; otherwise OpenAI.
C24_DocumentedPriority ==
    (mode = "llm" /\ pc = "LlmSelected") =>
        llm_class[1] = IF NamedClass # "" THEN NamedClass
                       ELSE IF HasAnthropicKey THEN "AnthropicAugmentedLLM"
                       ELSE IF HasOllamaSection THEN "OllamaAugmentedLLM"
                       ELSE "OpenAIAugmentedLLM"

-----------------------------------------------------------------------------
(* C25 *)

\* C25: _determine_task_type_from_context(agent, iteration) answers
\* code_generation whenever the agent has implemented a file or is in an
\* analysis loop, at any iteration, and analysis when no file is implemented
\* and the agent is in no loop during iterations 1 to 3.
C25_TaskTypeByPhase ==
    (mode = "switch" /\ pc = "TaskTypeDetermined") =>
        /\ (agent[1].files_count >= 1 \/ agent[1].in_loop) =>
               task_type = Some("code_generation")
        /\ (agent[1].files_count = 0 /\ ~agent[1].in_loop /\ iteration \in 1..3) =>
               task_type = Some("analysis")

\* iteration 1, no file yet, the agent in an analysis loop: code_generation
C25_Witness ==
    /\ mode = "switch"
    /\ pc = "TaskTypeDetermined"
    /\ iteration = 1
    /\ agent = Some(MockCodeAgent(0, TRUE))
    /\ task_type = Some("code_generation")

-----------------------------------------------------------------------------
(* C26 *)

\* one of the two run_codex_review functions was applied
CodexParsed == Parsed /\ pc \in {"IterCodexDone", "QuickCodexDone"}

\* the output ends with a review object, behind a narrative that holds an
\* example object; nothing was printed on stderr
EndsNarrative ==
    /\ proc_result[1].stderr = <<>>
    /\ \E p \in TextPayloads : proc_result[1].stdout \in Narrated(p)

\* the review object at the end of such an output
FinalPayload == CHOOSE p \in TextPayloads : proc_result[1].stdout \in Narrated(p)

\* C26: on a Codex output that ends with the review object, behind a
\* narrative with an earlier example object, run_codex_review returns
\* success with the overall score and the issues of the final object.
C26_LastObjectIsExtracted ==
    (CodexParsed /\ CleanExit /\ EndsNarrative /\ FinalPayload.key = ScriptKey) =>
        /\ Result.status = "success"
        /\ Result.data.overall_score = FinalPayload.score
        /\ Result.data[ScriptKey] = FinalPayload.issues

-----------------------------------------------------------------------------
(* C27 *)

\* a review function of iterative_code_improvement.py fell back on
\* parse_text_review
FellBack ==
    /\ Parsed
    /\ pc \in {"IterGeminiDone", "IterCodexDone"}
    /\ Result.status = "partial"

\* the text it handed to parse_text_review
ReviewText ==
    IF pc = "IterGeminiDone" THEN proc_result[1].stdout
    ELSE proc_result[1].stdout \o proc_result[1].stderr

\* the score mentions of the text and the lines that begin with a severity
\* keyword, in text order
Mentions == SelectSeq(ReviewText, LAMBDA tok : tok.t = "score")
LinesBeginningWithSeverity == SelectSeq(ReviewText, LAMBDA tok : tok.t = "severity")

\* the overall score is the arithmetic mean of the score mentions, 5.0
\* without one
ScoreIsMeanOfMentions ==
    IF Mentions = <<>> THEN Result.data.overall_score = 10
    ELSE Result.data.overall_score * Len(Mentions)
             = sum([k \in 1..Len(Mentions) |-> Mentions[k].val])

\* every issue has an upper-case severity and a description, and no line
IssuesAreSeverityAndText ==
    \A k \in 1..Len(Result.data.critical_issues) :
        /\ DOMAIN Result.data.critical_issues[k] = {"severity", "description"}
        /\ Result.data.critical_issues[k].severity \in {"CRITICAL", "HIGH", "MEDIUM", "LOW"}

\* C27: parse_text_review returns the arithmetic mean of the score mentions
\* of the text (5.0 without one) and at most five issues: the first five
\* lines that begin with a severity keyword, in text order, each with its
\* severity in upper case and its free text, and without a line number.
C27_TextFallback ==
    FellBack =>
        /\ ScoreIsMeanOfMentions
        /\ IssuesAreSeverityAndText
        /\ Len(Result.data.critical_issues) <= 5
        /\ LET lines == LinesBeginningWithSeverity
               n == IF Len(lines) < 5 THEN Len(lines) ELSE 5
           IN  Result.data.critical_issues =
                   [k \in 1..n |-> [severity    |-> upper(lines[k].severity),
                                    description |-> strip(lines[k].description)]]

-----------------------------------------------------------------------------
(* C28 *)

\* the consensus set of the current iteration, once both reviews are in
ConsensusSet ==
    IF mode = "iterative"
    THEN generate_consensus_report(gemini_result, codex_result, iteration).consensus_issues
    ELSE IF gemini_result.status = "success" /\ codex_result.status = "success"
         THEN find_consensus_issues(gemini_result.data, codex_result.data)
         ELSE <<>>

\* the controller takes the decision of the current iteration
Decides == pc = "Deciding" /\ pc' # "Deciding"

\* a repair call is issued
RepairIssued == calls' # calls /\ calls'[Len(calls')].op = "repair"

\* the controller is on its way to the review of the next iteration: in
\* the sleep before it, or at it
TowardsNextReview ==
    \/ pc' = "Sleeping" /\ iteration' = iteration
    \/ pc' = "ReviewGemini" /\ iteration' = iteration + 1

\* with the target missed, iterations left and an empty consensus set the
\* decision leads to the next review
EmptyConsensusResamples ==
    (Decides /\ pc' # "Converged" /\ iteration < max_iterations /\ ConsensusSet = <<>>)
        => TowardsNextReview /\ calls' = calls

\* the sleep ends in the next review and issues no call
SleepEndsInReview ==
    pc = "Sleeping" => pc' = "ReviewGemini" /\ iteration' = iteration + 1 /\ calls' = calls

\* a repair call belongs to the current iteration and its consensus set is
\* not empty
RepairNeedsConsensus ==
    RepairIssued =>
        /\ pc = "Repairing"
        /\ calls'[Len(calls')].iteration = iteration
        /\ ConsensusSet # <<>>

\* C28: when the target is not reached, iterations remain and the consensus
\* set of the iteration is empty, the controller issues no repair call and
\* goes on to the review of the next iteration; it issues a repair call in
\* an iteration only if the consensus set of that iteration is not empty.
C28_EmptyConsensusSkipsRepair ==
    [][EmptyConsensusResamples /\ SleepEndsInReview /\ RepairNeedsConsensus]_vars

-----------------------------------------------------------------------------
(* C29 *)

\* the review calls to a provider in an iteration
ReviewsOf(tool, iter) ==
    {k \in 1..Len(calls) :
        calls[k].op = "review" /\ calls[k].tool = tool /\ calls[k].iteration = iter}

\* the reviews of iteration iter are over
ReviewsOver(iter) == iter < iteration \/ (iter = iteration /\ AfterCodex)

\* no provider is called twice in an iteration, and once the reviews of an
\* iteration are over every available provider was called in it
OneReviewPerProvider ==
    \A iter \in 1..iteration : \A tool \in {"gemini", "codex"} :
        /\ Cardinality(ReviewsOf(tool, iter)) <= 1
        /\ (ReviewsOver(iter) /\ tools[tool]) => Cardinality(ReviewsOf(tool, iter)) = 1

\* the controller computes the average or the consensus set
Aggregates ==
    \/ consensus' # consensus
    \/ avg_score' # avg_score
    \/ consensus_issues' # consensus_issues
    \/ review_history' # review_history

\* every available provider was called in the current iteration and has
\* returned its outcome
OutcomesCollected ==
    /\ pc = "Deciding"
    /\ gemini_result # None /\ codex_result # None
    /\ tools.gemini => ReviewsOf("gemini", iteration) # {}
    /\ tools.codex => ReviewsOf("codex", iteration) # {}

\* C29: in every iteration of either controller each available provider is
\* called for a review exactly once, and the average and the consensus set
\* are computed only when an outcome of every available provider for the
\* iteration is in.
C29_OneReviewEachThenAggregate ==
    []OneReviewPerProvider /\ [][Aggregates => OutcomesCollected]_vars

\* the second iteration is decided on the outcomes of four review calls
C29_Witness ==
    /\ Decided
    /\ iteration = 2
    /\ tools.gemini /\ tools.codex
    /\ \A iter \in 1..2 : \A tool \in {"gemini", "codex"} :
           Cardinality(ReviewsOf(tool, iter)) = 1
    /\ gemini_result.status = "success" /\ codex_result.status = "success"
    /\ CurrentAverage = mean(<<gemini_result.data.overall_score,
                               codex_result.data.overall_score>>)

-----------------------------------------------------------------------------
(* C30 *)

\* generate_consensus_report was applied to two lists of issues
KeywordMatched == mode = "match" /\ pc = "KeywordDone"

\* the vocabulary positions of the keywords both issues hold
SharedKeywords(g, c) ==
    {k \in 1..Len(common_keywords) :
        /\ contains(Chars(common_keywords[k]), issue_desc(g))
        /\ contains(Chars(common_keywords[k]), issue_desc(c))}

\* how often x is in the list s
Occurrences(s, x) == Cardinality({i \in 1..Len(s) : s[i] = x})

\* C30: in generate_consensus_report a pair of a Gemini issue and a Codex
\* issue gives at most one consensus entry, tagged with the first keyword
\* of the vocabulary the two share, so that the consensus set has at most
\* |Gemini issues| x |Codex issues| entries; every entry has priority HIGH.
C30_OneEntryPerPair ==
    KeywordMatched =>
        LET E == consensus[1].consensus_issues
            G == gemini_result.data.critical_issues
            C == codex_result.data.critical_issues
        IN  /\ Len(E) <= Len(G) * Len(C)
            /\ \A k \in 1..Len(E) :
                   LET S == SharedKeywords(E[k].gemini_finding, E[k].codex_finding)
                   IN  /\ E[k].priority = "HIGH"
                       /\ S # {}
                       /\ \E m \in S : /\ E[k].keyword = common_keywords[m]
                                       /\ \A n \in S : m <= n
            /\ \A i \in 1..Len(G), j \in 1..Len(C) :
                   Cardinality({k \in 1..Len(E) : /\ E[k].gemini_finding = G[i]
                                                  /\ E[k].codex_finding = C[j]})
                       <= Occurrences(G, G[i]) * Occurrences(C, C[j])

\* two pairs that each share two keywords of the vocabulary gave one entry
\* each, tagged with the earlier keyword
C30_Witness ==
    /\ KeywordMatched
    /\ Len(consensus[1].consensus_issues) = 2
    /\ \A k \in 1..2 :
           LET e == consensus[1].consensus_issues[k]
           IN  /\ Cardinality(SharedKeywords(e.gemini_finding, e.codex_finding)) >= 2
               /\ e.keyword = "device"

-----------------------------------------------------------------------------
(* C31 *)

\* the outcome with success in place of partial and partial in place of
\* success, its data unchanged
Swapped(result) ==
    IF result.status = "success" THEN [result EXCEPT !.status = "partial"]
    ELSE IF result.status = "partial" THEN [result EXCEPT !.status = "success"]
    ELSE result

\* C31: generate_consensus_report treats a partial outcome like a
\* successful one: the report the controller computes in an iteration has
\* the scores, the average score and the consensus set of the report on the
\* same outcomes with partial and success exchanged, and the controller
\* decides as it would on that report.
C31_PartialCountsAsSuccess ==
    [][(mode = "iterative" /\ Decides) =>
          \A g \in {gemini_result, Swapped(gemini_result)},
             c \in {codex_result, Swapped(codex_result)} :
              LET report == generate_consensus_report(g, c, iteration)
              IN  /\ consensus'[1].scores = report.scores
                  /\ consensus'[1].average_score = report.average_score
                  /\ consensus'[1].consensus_issues = report.consensus_issues
                  /\ pc' = iter_decide(report, iteration, target_score, max_iterations)]_vars

\* a partial Gemini review and a successful Codex review share a keyword:
\* both scores count and the pair is in the consensus set
C31_Witness ==
    /\ mode = "iterative"
    /\ Decided
    /\ gemini_result.status = "partial"
    /\ codex_result.status = "success"
    /\ DOMAIN consensus[1].scores = {"gemini", "codex"}
    /\ consensus[1].average_score =
           mean(<<gemini_result.data.overall_score, codex_result.data.overall_score>>)
    /\ consensus[1].consensus_issues # <<>>

-----------------------------------------------------------------------------
(* C32 *)

\* the average of the overall scores of the current outcomes that count:
\* success and partial in IterativeCodeImprover, success in quick main;
\* 0.0 without one
OutcomeAverage ==
    LET counted == SelectSeq(<<gemini_result, codex_result>>,
                       LAMBDA r : r.status = "success"
                                  \/ (mode = "iterative" /\ r.status = "partial"))
        scores  == [k \in 1..Len(counted) |-> counted[k].data.overall_score]
    IN  IF scores = <<>> THEN 0 ELSE sum(scores) \div Len(scores)

\* the decision step computes the average and the consensus set from the
\* outcomes of the current iteration
AggregateOfCurrentOutcomes ==
    Decides =>
        IF mode = "iterative"
        THEN /\ consensus'[1].average_score = OutcomeAverage
             /\ consensus'[1].consensus_issues = ConsensusSet
             /\ review_history'[Len(review_history')] = consensus'[1]
        ELSE /\ pc' # "NoSuccessfulReviews" => avg_score'[1] = OutcomeAverage
             /\ pc' = "Repairing" => consensus_issues'[1] = ConsensusSet

\* a repair call is for an issue of the consensus set of the current
\* outcomes
RepairOfCurrentConsensus ==
    (RepairIssued /\ mode = "quick") =>
        \E k \in 1..Len(ConsensusSet) : calls'[Len(calls')].file = ConsensusSet[k].file

\* C32: the consensus set and the average score of an iteration are
\* computed from the review outcomes of that iteration alone, whatever the
\* earlier iterations reviewed, agreed on and repaired.
C32_NoCrossIterationMemory ==
    [][AggregateOfCurrentOutcomes /\ RepairOfCurrentConsensus]_vars

\* the second iteration of a session whose first iteration agreed on issues
\* and repaired them: its consensus set is that of its own outcomes, and
\* differs from the first
C32_Witness ==
    /\ mode = "iterative"
    /\ Decided
    /\ iteration = 2
    /\ RepairsIn(1) # {}
    /\ review_history[1].consensus_issues # <<>>
    /\ consensus[1].consensus_issues = ConsensusSet
    /\ consensus[1].consensus_issues # review_history[1].consensus_issues
    /\ consensus[1].average_score # review_history[1].average_score

-----------------------------------------------------------------------------
(* C33 *)

\* a file of directory d is written that was there before: the path is the
\* target of a second write
Rewritten(d, old) == \E new \in audit_files'[d] : new.name = old.name /\ new # old

\* C33: no two writes of IterativeCodeImprover sessions target the same
\* path, within one session or between two sessions that run side by
\* side; no session overwrites a file another session wrote.
C33_WritesNeverCollide ==
    [][mode = "audit" =>
          \A d \in DOMAIN audit_files : \A old \in audit_files[d] : ~Rewritten(d, old)]_vars

-----------------------------------------------------------------------------
(* C34 *)

\* the output confirms a change: it names a file update or a diff
ConfirmsChange(output) == in_lower("file update:", output) \/ in_lower("diff", output)

\* the output says the provider is not available to this account
DeniesEntitlement(output) == contains(Chars("upgrade to Plus"), Chars(output))

\* what a pass of a repair loop says when it ends on a timeout or on
\* another exception
SaysRaised(e) ==
    e.says \in {"Timeout while applying fix", "Error applying fix", "Failed to apply fix"}

\* a repair counts as applied only on an output that confirms a change and
\* denies nothing; without confirmation it is reported as unconfirmed
ClassifiedByOutput ==
    \A k \in 1..Len(fix_log) :
        LET e == fix_log[k]
        IN  e.called =>
                /\ e.applied => (ConfirmsChange(e.output) /\ ~DeniesEntitlement(e.output))
                /\ (DeniesEntitlement(e.output) \/ SaysRaised(e)) => ~e.applied
                /\ (~SaysRaised(e) /\ ~DeniesEntitlement(e.output) /\ ~ConfirmsChange(e.output))
                       => e.says = "Fix may not have been applied"

\* a pass that ends without an applied repair is followed by the next
\* issue of the batch
UnconfirmedGoesOn ==
    (pc = "Repairing" /\ Len(fix_log') = Len(fix_log) + 1 /\ fix_index < Len(Batch)
        /\ ~fix_log'[Len(fix_log')].applied)
        => (pc' = "Repairing" /\ fix_index' = fix_index + 1)

\* C34: a repair is classified as applied only when the output of the
\* repair provider confirms a change (file update or diff) and holds no
\* entitlement denial; a denial, a timeout or an exception is never
\* classified as applied; an output without confirmation is reported as an
\* unconfirmed repair, and the batch goes on.
C34_AppliedOnlyOnConfirmation ==
    []ClassifiedByOutput /\ [][UnconfirmedGoesOn]_vars

-----------------------------------------------------------------------------
(* C35 *)

\* the Gemini CLI review cannot be used: the CLI is not installed, exits
\* nonzero, times out or raises
CliUnusable ==
    \/ ~tools.gemini
    \/ proc_result[1].exc # "none"
    \/ proc_result[1].returncode # 0

\* the Gemini step of main, running under asyncio.run, is over
GeminiStepUnderMain == mode = "cross" /\ loop_running /\ gemini_result # None

\* the step returned what the Gemini API review returns
ReturnsApiReview ==
    (GeminiStepUnderMain /\ CliUnusable)
        => gemini_result[1] = run_gemini_api_review(api_outcome)

\* a failed Gemini step is (False, None), and the run still goes through the
\* Codex step to the summary
FailureGoesOn ==
    /\ (GeminiStepUnderMain /\ ~gemini_result[1].success)
           => /\ gemini_result[1] = ReviewPair(FALSE, None)
              /\ pc \in {"CodexStep", "SummaryStep", "Complete"}
    /\ (mode = "cross" /\ pc = "Complete") => codex_result # None /\ summary # None

\* C35: in cross_review, called from main under asyncio.run, a Gemini CLI
\* review that cannot be used (not installed, nonzero exit, timeout,
\* exception) makes run_gemini_cli_review return the (success, report
\* path) of the Gemini API review; a failure of the fallback yields
\* (False, None) and the run still reaches the Codex step and the summary.
C35_FallbackReturnsApiReview == ReturnsApiReview /\ FailureGoesOn

-----------------------------------------------------------------------------
(* C36 *)

\* the issue carries a file name and a line number
CarriesFileAndLine(issue) ==
    /\ "file" \in DOMAIN issue.v /\ issue.v.file.t = "string"
    /\ "line" \in DOMAIN issue.v /\ issue.v.line.t = "number"

\* find_consensus_issues has returned
LocalityReturned == mode = "fault" /\ pc = "QuickMatched" /\ consensus_issues # None

\* C36: find_consensus_issues never reports as consensus a pair in which
\* either issue lacks a file name or a line number; locality matching
\* applies only to pairs where both issues carry file and line.
C36_ConsensusCarriesFileAndLine ==
    LocalityReturned =>
        \A k \in 1..Len(consensus_issues[1]) :
            /\ CarriesFileAndLine(consensus_issues[1][k].gemini_issue)
            /\ CarriesFileAndLine(consensus_issues[1][k].codex_issue)

-----------------------------------------------------------------------------
(* C37 *)

\* _aggregate_reviews has returned its summary
SummaryReturned == mode = "aggregate" /\ pc = "Aggregated" /\ summary # None

\* the k-th file was reviewed successfully and its review text decodes
Decodes(k) ==
    /\ reviews[1][k].status = "success"
    /\ review_data(reviews[1][k].review).ok

\* the k-th file was reviewed successfully and its text does not decode
Undecoded(k) == reviews[1][k].status = "success" /\ ~Decodes(k)

\* the files whose decoded review holds an overall_score
Scored == {k \in 1..Len(reviews[1]) :
              Decodes(k) /\ "overall_score" \in DOMAIN review_data(reviews[1][k].review).val}

ScoreOf(k) == review_data(reviews[1][k].review).val.overall_score

\* the sum of the scores, in half points
ScoreSum == sum([k \in 1..Len(reviews[1]) |-> IF k \in Scored THEN ScoreOf(k).v ELSE 0])

\* total_files = reviewed_successfully + review_failed
FilesAddUp ==
    summary[1].total_files
        = summary[1].reviewed_successfully + summary[1].review_failed

\* the four severity counts together do not exceed total_issues
SeveritiesWithinTotal ==
    summary[1].critical_issues + summary[1].high_issues + summary[1].medium_issues
        + summary[1].low_issues <= summary[1].total_issues

\* average_score (hundredths) is the mean of the scores (half points)
AverageIsMean ==
    IF Scored = {} THEN summary[1].average_score = 0
    ELSE summary[1].average_score * 2 * Cardinality(Scored) = 100 * ScoreSum

\* average_score is the hundredth nearest to the mean of the scores
AverageIsRoundedMean ==
    IF Scored = {} THEN summary[1].average_score = 0
    ELSE 2 * abs(summary[1].average_score * 2 * Cardinality(Scored) - 100 * ScoreSum)
             <= 2 * Cardinality(Scored)

\* a review that does not decode counts as reviewed successfully
UndecodedCountsAsReviewed ==
    summary[1].reviewed_successfully
        = Cardinality({k \in 1..Len(reviews[1]) : reviews[1][k].status = "success"})

\* the aggregation ends without a summary only over a decoded score that
\* is no number, never over a text that does not decode
UndecodedNeverAborts ==
    (mode = "aggregate" /\ pc # "Reviewed" /\ \A k \in Scored : is_number(ScoreOf(k)))
        => pc = "Aggregated"

\* C37 as stated: in every summary returned by _aggregate_reviews,
\* total_files = reviewed_successfully + review_failed, the four severity
\* counts do not exceed total_issues, and average_score is the mean of the
\* overall_score values of the successfully reviewed files whose text
\* decodes (0 without one); a review whose text does not decode counts as
\* reviewed successfully and never aborts the aggregation.
C37_SummaryWithExactMean ==
    /\ UndecodedNeverAborts
    /\ SummaryReturned =>
           /\ FilesAddUp
           /\ SeveritiesWithinTotal
           /\ AverageIsMean
           /\ UndecodedCountsAsReviewed

\* C37 amended: as above, with average_score the mean rounded to two
\* decimal places.
C37_SummaryWithRoundedMean ==
    /\ UndecodedNeverAborts
    /\ SummaryReturned =>
           /\ FilesAddUp
           /\ SeveritiesWithinTotal
           /\ AverageIsRoundedMean
           /\ UndecodedCountsAsReviewed

\* a summary over a review that does not decode next to two that carry
\* scores and issues
C37_Witness ==
    /\ SummaryReturned
    /\ \E k \in 1..Len(reviews[1]) : Undecoded(k)
    /\ Cardinality(Scored) = 2
    /\ summary[1].total_issues > 0
    /\ summary[1].average_score > 0

====
